---- MODULE Spec2Model ----
(***************************************************************************)
(* A model of the discovery and task-orchestration subsystem of            *)
(* github-tuner: the persistent task queue (tuner/storage.py, TaskQueue),  *)
(* the findings store (TunerStorage.save_finding), the worker loops        *)
(* (tuner/workers.py, WorkerManager) and the date bisection                *)
(* (tuner/slicer.py and WorkerManager._handle_discovery_task).             *)
(*                                                                         *)
(* Specifications:                                                         *)
(*   SpecQueue    the TaskQueue API under concurrent clients               *)
(*   SpecRetry    the same, with one task failed until it is given up      *)
(*   SpecRoles    pop_task of every role on queues of the four task types  *)
(*   SpecFindings save_finding under any sequence of calls                 *)
(*   SpecBisect   the discovery handler applied recursively to the         *)
(*                discovery tasks of the queue                             *)
(*   Spec         the four worker loops of WorkerManager.start             *)
(*   FairStop     the worker loops with failing handlers and stop(), the   *)
(*                event loop fair to the workers                           *)
(*   SpecScout    the Scout loop alone, with the rate-limit monitor and    *)
(*                responses that carry rate-limit headers or fail          *)
(*   FairScout    the same with discovery tasks in the queue, the Scout    *)
(*                and the clock scheduled fairly                           *)
(*   SpecTactics  the TacticEngine (tuner/tactics.py) under any sequence   *)
(*                of select_tactic, rotate_tactic and update_tactic_weight *)
(*   SpecPerformance the tactic_performance table (tuner/storage.py)       *)
(*   SpecExperience  AdaptiveThresholds (tuner/manager.py) under any       *)
(*                sequence of adjust_threshold calls                       *)
(*   SpecMissions MissionControl (tuner/mission.py): load_missions and     *)
(*                next_mission                                             *)
(*   FairProcessors  the two Processors on analyze tasks, fair             *)
(*   SpecHandlerFault  the worker loops with handlers that raise           *)
(*   SpecStaleTask  the two Processors with pop_task calls that raise       *)
(*   SpecCycleFault the loop of AutonomousManager with exceptions in a cycle *)
(*   FairRestart  the worker loops ended with the process and started again *)
(*   FairPipeline the four worker loops running for ever, fair, with        *)
(*                pop_task calls and handlers that raise                   *)
(*   SpecCheckpoint  check_and_sleep under its lock, several callers       *)
(*   SpecFetcher  the Fetcher loop alone, with every answer to its requests *)
(*   SpecSearch   the Scout loop on search tasks of several pages           *)
(*   SpecSearchRetry  the Scout loop with a search handler that raises      *)
(*                part-way and is retried                                  *)
(*   SpecManager  the loop of AutonomousManager.start: research cycle,     *)
(*                reflection, strategy optimization                        *)
(***************************************************************************)
EXTENDS Integers, Sequences, FiniteSets, TLC

(***************************************************************************)
(* Bounds of the model.                                                    *)
(***************************************************************************)
MaxTasks == 2        \* SpecQueue: tasks enqueued
MaxClock == 1        \* SpecQueue: seconds that pass
MaxQueueFails == 1   \* SpecQueue: fail_task calls
MaxRetryTasks == 1   \* SpecRetry: tasks enqueued
MaxFailCalls == 4    \* SpecRetry: fail_task calls
MaxRoleTasks == 3    \* SpecRoles: tasks enqueued
MaxSaves == 3        \* SpecFindings: save_finding calls
MaxWidth == 4        \* SpecBisect: width of the first window, in microseconds
MaxDiscovery == 5    \* SpecBisect: discovery tasks enqueued
MaxFaults == 1       \* Spec: exceptions raised in the worker loops
MaxStopFaults == 1   \* FairStop: exceptions raised by the handlers
MaxNow == 3          \* SpecScout: seconds that pass
MaxScoutTasks == 2   \* SpecScout: search tasks enqueued
MaxScoutDiscovery == 1  \* FairScout: discovery tasks enqueued
MaxTacticCalls == 3  \* SpecTactics: calls of the TacticEngine
MaxLogs == 3         \* SpecPerformance: log_tactic_performance calls
MaxAdjustCalls == 4  \* SpecExperience: adjust_threshold calls
MaxVisits == 6       \* SpecMissions: next_mission calls
MaxAnalyzeTasks == 2   \* FairProcessors: analyze tasks enqueued
MaxHandlerFaults == 4  \* SpecHandlerFault: exceptions raised by handlers
MaxCycles == 1       \* SpecManager: research cycles of the loop of start
MaxFetchTasks == 2   \* SpecFetcher: fetch_readme tasks enqueued
MaxSearchTasks == 2  \* SpecSearch: search tasks enqueued
MaxSearchFaults == 2 \* SpecSearchRetry: exceptions raised inside the search handler
MaxPopFaults == 2    \* SpecStaleTask: pop_task calls that raise
MaxPipelineFaults == 1  \* FairPipeline: exceptions raised by pop_task and the handlers
MaxPipelineTasks == 4   \* FairPipeline, FairRestart: the task ids progress is claimed for
MaxExits == 1        \* FairRestart: times the process ends and is started again

(***************************************************************************)
(* Program constants.                                                      *)
(***************************************************************************)
MaxRetries == 3
SafetyBuffer == 5
DefaultRemaining == 5000

None == 0
Unbound == -1
Free == "free"
NoHeader == -1
NoHeaders == [remaining |-> NoHeader, reset_time |-> NoHeader]

Clients == {"c1", "c2"}
Workers == {"scout", "fetcher", "proc1", "proc2"}
Conns == Clients \cup Workers

(* what the program enqueues: cli.py:115, workers.py:99,142 and 176 *)
ClientTasks == {<<"search", 10>>, <<"search", 5>>, <<"analyze", 10>>}
WorkerTypes == {"scout", "fetcher", "processor", "none"}

(* tuner/tactics.py: the pool, in the order of DEFAULT_TACTICS, with the   *)
(* weight of each tactic in hundredths                                     *)
TacticNames == <<"trending", "rising_stars", "established", "deep_dive",
                 "keyword_rotation", "fresh_projects">>
Pool == {TacticNames[i] : i \in 1..Len(TacticNames)}
DEFAULT_TACTICS ==
    [name \in Pool |->
        CASE name = "trending" -> 150
          [] name = "rising_stars" -> 120
          [] name = "established" -> 100
          [] name = "deep_dive" -> 80
          [] name = "keyword_rotation" -> 100
          [] name = "fresh_projects" -> 70]
HistoryLimit == 10
RecentWindow == 3
MinWeight == 30
MaxWeight == 200
Missions == {"m1", "m2"}

(* tuner/mission.py, MissionControl.  A missions file is the list of the   *)
(* names of its missions; a file that is missing, unreadable or empty      *)
(* gives the default mission.                                              *)
DefaultMission == "General Exploration"
Callers == {"c1", "c2", "c3"}

NoMission == ""
NoCycle == [tactic |-> "none", threshold |-> <<>>, found |-> 0, accepted |-> 0,
            rejected |-> 0, todo |-> <<>>, raised |-> FALSE]
load_missions(file) == IF file = <<>> THEN <<DefaultMission>> ELSE file

(* tuner/manager.py, AdaptiveThresholds: the keys and their defaults, 0.25 *)
(* and 0.4, as fractions; Absent marks a key that the cache does not hold  *)
Keys == {"similarity_threshold", "ai_analysis_threshold"}
Defaults == [key \in Keys |-> IF key = "similarity_threshold" THEN <<1, 4>> ELSE <<2, 5>>]
Absent == <<>>
Directions == {"down", "up"}
NoCall == [call |-> "none", mission |-> "none", tactic |-> "none", rate |-> 0]

VARIABLES
    tasks,       \* the tasks table: id -> row
    uuids,       \* the ids enqueue_task has returned so far
    clock,       \* CURRENT_TIMESTAMP, in seconds
    db_lock,     \* the connection inside a BEGIN IMMEDIATE transaction, or Free
    op,          \* per connection: the queue call it is in the middle of
    task,        \* per connection: the variable that receives pop_task's result
    fail_calls,  \* history: per task id, the fail_task calls made on it
    findings,    \* the findings table, in the order of insertion
    save_log,    \* history: the save_finding calls made, with what they returned
    parent,      \* history: per task id, the task whose handler enqueued it (0: none)
    probes,      \* history: per discovery task id, the total_count its probe reported
    held,        \* history: per discovery task id, the results its window holds
    pc,          \* per worker: where its coroutine stands
    running,     \* WorkerManager.running
    faults,      \* history: the exceptions raised so far
    monitor,     \* RateLimitMonitor: remaining and reset_time
    now,         \* time.time(), in seconds
    wake_at,     \* the time before which the sleep of check_and_sleep does not end
    net_failed,  \* history: the search tasks whose latest network call failed
    received,    \* history: what the Hunter returned to the latest handler that called it
    tactics,     \* TacticEngine.tactics: name -> weight, in hundredths
    mission_tactic_history,  \* TacticEngine._mission_tactic_history
    returned,    \* history: the latest call of the TacticEngine and its result
    tactic_calls, \* history: the number of calls of the TacticEngine
    tactic_performance,  \* the tactic_performance table, in the order of insertion
    cache,       \* AdaptiveThresholds._cache: mission -> key -> threshold
    adjust_calls, \* history: the number of adjust_threshold calls
    last_adjust, \* history: the arguments of the latest adjust_threshold call
    missions,    \* MissionControl.missions: the names of the missions, in order
    current_index, \* MissionControl.current_index, from 0
    visits,      \* history: the next_mission calls, with the list and the result
    agent_pc,    \* AutonomousManager.start: where the coroutine stands
    agent_running,  \* AutonomousManager.running
    mission,     \* start: the mission of the iteration
    cycle,       \* run_research_cycle: tactic, counters, findings to screen
    session_stats,  \* AutonomousManager.session_stats: scanned, interested
    cycle_count, \* AutonomousManager._cycle_count
    strategy,    \* the query strategy stored in strategy.json, by version
    strategy_call,  \* history: how the latest generate_strategy_v2 call ended
    lock,        \* RateLimitMonitor._lock: the caller that holds it, or Free
    caller_pc,   \* per caller of check_and_sleep: where its call stands
    low_since_reset,  \* history: a response left remaining below the buffer since the
                 \* latest reset of check_and_sleep (kept by SpecCheckpoint)
    handed,      \* history: per task id, the times a worker loop was handed it
    events       \* history: what the Scout did for the task it claimed last

vars == <<tasks, uuids, clock, db_lock, op, task, fail_calls, findings, save_log,
          parent, probes, held, pc, running, faults, monitor, now, wake_at, net_failed,
          received, tactics, mission_tactic_history, returned, tactic_calls,
          tactic_performance, cache, adjust_calls, last_adjust,
          missions, current_index, visits, agent_pc, agent_running, mission, cycle,
          session_stats, cycle_count, strategy, strategy_call,
          lock, caller_pc, low_since_reset, events, handed>>

findingsVars == <<findings, save_log>>

bisectVars == <<parent, probes, held>>

(* what the clients of the queue leave alone *)
workerVars == <<pc, running, faults>>

monitorVars == <<monitor, now, wake_at, net_failed, received>>

engineVars == <<tactics, mission_tactic_history, returned, tactic_calls>>

missionVars == <<missions, current_index, visits>>

agentVars == <<agent_pc, agent_running, mission, cycle, session_stats, cycle_count, strategy,
               strategy_call>>

managerVars == <<tactic_performance, cache, adjust_calls, last_adjust, missionVars, agentVars>>

checkpointVars == <<lock, caller_pc, low_since_reset>>

outsideQueue == <<task, findingsVars, bisectVars, workerVars, monitorVars, engineVars, managerVars, checkpointVars, events, handed>>

queueVars == <<tasks, uuids, db_lock, op, fail_calls>>

Idle == [kind |-> "idle", arg |-> "none", sel |-> None, retries |-> 0]

NoPayload == [query |-> [text |-> "", created |-> <<>>], page |-> 0,
              start_date |-> 0, end_date |-> 0, item |-> "", readme |-> ""]

(* nothing received yet *)
NoAnswer == [call |-> "none", query |-> [text |-> "", created |-> <<>>], page |-> 0,
             items |-> <<>>, headers |-> NoHeaders, total_count |-> 0, text |-> ""]

Ids == DOMAIN tasks

RECURSIVE SumOver(_, _)
SumOver(f, S) ==
    IF S = {} THEN 0
    ELSE LET x == CHOOSE y \in S : TRUE IN f[x] + SumOver(f, S \ {x})

(* the fail_task calls begun so far, finished or not *)
FailCallsMade ==
    SumOver(fail_calls, DOMAIN fail_calls) + Cardinality({c \in Conns : op[c].kind = "fail"})

(* a counter incremented; absent keys are added *)
Bump(f, t) == IF t \in DOMAIN f THEN [f EXCEPT ![t] = @ + 1] ELSE f @@ (t :> 1)

(***************************************************************************)
(* TaskQueue.enqueue_task: a fresh uuid, INSERT ... 'pending', commit.     *)
(* retry_count and created_at take the column defaults of the table.       *)
(***************************************************************************)
NewId == Cardinality(uuids) + 1

NewRow(task_type, payload, priority) ==
    [type |-> task_type, payload |-> payload, priority |-> priority,
     status |-> "pending", retry_count |-> 0, created_at |-> clock]

enqueue_task(task_type, payload, priority) ==
    /\ db_lock = Free
    /\ tasks' = tasks @@ (NewId :> NewRow(task_type, payload, priority))
    /\ uuids' = uuids \cup {NewId}
    /\ fail_calls' = fail_calls @@ (NewId :> 0)

(***************************************************************************)
(* TaskQueue.pop_task.  The WHERE clause built from worker_type: an        *)
(* argument that is none of the three roles adds no type condition.        *)
(***************************************************************************)
(* as TypeFilter, with no condition on the type for any role *)
TypeFilter_any(worker_type, type) == worker_type \in {"scout", "fetcher", "processor", "none"}

TypeFilter(worker_type, type) ==
    CASE worker_type = "scout" -> type = "search"
      [] worker_type = "fetcher" -> type = "fetch_readme"
      [] worker_type = "processor" -> type = "analyze"
      [] OTHER -> TRUE

Matching(worker_type) ==
    {t \in Ids : tasks[t].status = "pending" /\ TypeFilter(worker_type, tasks[t].type)}

(* as Before, with created_at DESC: the newest row of a priority first *)
Before_newest_first(a, b) ==
    \/ tasks[a].priority > tasks[b].priority
    \/ /\ tasks[a].priority = tasks[b].priority
       /\ tasks[a].created_at > tasks[b].created_at
    \/ /\ tasks[a].priority = tasks[b].priority
       /\ tasks[a].created_at = tasks[b].created_at
       /\ a < b

(* ORDER BY priority DESC, created_at ASC; rows that tie come in the order *)
(* of the scan of idx_tasks_status_priority, which is the insertion order. *)
Before(a, b) ==
    \/ tasks[a].priority > tasks[b].priority
    \/ /\ tasks[a].priority = tasks[b].priority
       /\ tasks[a].created_at < tasks[b].created_at
    \/ /\ tasks[a].priority = tasks[b].priority
       /\ tasks[a].created_at = tasks[b].created_at
       /\ a < b

(* ... LIMIT 1, fetchone(): the first row, or None *)
SelectTask(worker_type) ==
    LET m == Matching(worker_type)
    IN  IF m = {} THEN None
        ELSE CHOOSE t \in m : \A u \in m \ {t} : Before(t, u)

(* as pop_task_begin, with a plain BEGIN: the SELECT runs without the lock *)
pop_task_begin_deferred(c, worker_type) ==
    /\ op[c] = Idle
    /\ op' = [op EXCEPT ![c] = [kind |-> "pop", arg |-> worker_type,
                                sel |-> SelectTask(worker_type), retries |-> 0]]
    /\ UNCHANGED <<tasks, uuids, db_lock, fail_calls>>

(* BEGIN IMMEDIATE takes the write lock, then the SELECT runs under it *)
pop_task_begin(c, worker_type) ==
    /\ op[c] = Idle
    /\ db_lock = Free
    /\ db_lock' = c
    /\ op' = [op EXCEPT ![c] = [kind |-> "pop", arg |-> worker_type,
                                sel |-> SelectTask(worker_type), retries |-> 0]]
    /\ UNCHANGED <<tasks, uuids, fail_calls>>

(* UPDATE ... 'processing' of the selected row and commit, or commit alone *)
pop_task_commit(c) ==
    /\ op[c].kind = "pop"
    /\ LET t == op[c].sel
       IN  tasks' = IF t # None /\ t \in Ids
                    THEN [tasks EXCEPT ![t].status = "processing"]
                    ELSE tasks
    /\ db_lock' = Free
    /\ op' = [op EXCEPT ![c] = Idle]
    /\ UNCHANGED <<uuids, fail_calls>>

(***************************************************************************)
(* TaskQueue.complete_task: UPDATE ... 'completed' WHERE id = ?, commit.   *)
(***************************************************************************)
complete_task(t) ==
    /\ db_lock = Free
    /\ tasks' = IF t \in Ids THEN [tasks EXCEPT ![t].status = "completed"] ELSE tasks
    /\ UNCHANGED <<uuids, db_lock, op, fail_calls>>

(***************************************************************************)
(* TaskQueue.fail_task: the SELECT of retry_count, then, as a second       *)
(* statement, the UPDATE chosen by the value read.                         *)
(***************************************************************************)
fail_task_read(c, t) ==
    /\ op[c] = Idle
    /\ op' = [op EXCEPT ![c] = [kind |-> "fail", arg |-> "none", sel |-> t,
                                retries |-> IF t \in Ids THEN tasks[t].retry_count ELSE 0]]
    /\ UNCHANGED <<tasks, uuids, db_lock, fail_calls>>

(* as fail_task_write, with the exhausted task deleted instead of kept *)
fail_task_write_deleting(c) ==
    /\ op[c].kind = "fail"
    /\ db_lock = Free
    /\ LET t == op[c].sel
       IN  /\ tasks' = IF t \notin Ids THEN tasks
                        ELSE IF op[c].retries < MaxRetries
                        THEN [tasks EXCEPT ![t].status = "pending",
                                           ![t].retry_count = @ + 1]
                        ELSE [u \in Ids \ {t} |-> tasks[u]]
           /\ fail_calls' = Bump(fail_calls, t)
    /\ op' = [op EXCEPT ![c] = Idle]
    /\ UNCHANGED <<uuids, db_lock>>

fail_task_write(c) ==
    /\ op[c].kind = "fail"
    /\ db_lock = Free
    /\ LET t == op[c].sel
       IN  /\ tasks' = IF t \notin Ids THEN tasks
                        ELSE IF op[c].retries < MaxRetries
                        THEN [tasks EXCEPT ![t].status = "pending",
                                           ![t].retry_count = @ + 1]
                        ELSE [tasks EXCEPT ![t].status = "failed"]
           /\ fail_calls' = Bump(fail_calls, t)
    /\ op' = [op EXCEPT ![c] = Idle]
    /\ UNCHANGED <<uuids, db_lock>>

(***************************************************************************)
(* SpecQueue and SpecRetry: any number of calls of the TaskQueue API by    *)
(* two clients, each on its own connection, in any interleaving of their   *)
(* statements.  SpecQueue has more tasks and few failures, SpecRetry one   *)
(* task and enough failures to exhaust its retries.                        *)
(***************************************************************************)
InitStore ==
    /\ tasks = <<>>
    /\ uuids = {}
    /\ clock = 0
    /\ db_lock = Free
    /\ op = [c \in Conns |-> Idle]
    /\ task = [c \in Conns |-> Unbound]
    /\ fail_calls = <<>>
    /\ findings = <<>>
    /\ save_log = <<>>
    /\ parent = <<>>
    /\ probes = <<>>
    /\ held = <<>>
    /\ pc = [w \in Workers |-> "created"]
    /\ running = FALSE
    /\ faults = 0
    /\ monitor = [remaining |-> DefaultRemaining, reset_time |-> 0]
    /\ now = 0
    /\ wake_at = 0
    /\ net_failed = {}
    /\ received = NoAnswer
    /\ tactics = DEFAULT_TACTICS
    /\ returned = NoCall
    /\ tactic_calls = 0
    /\ cache = [m \in Missions |-> [key \in Keys |-> Absent]]
    /\ adjust_calls = 0
    /\ last_adjust = [mission |-> "none", key |-> "none", direction |-> "none"]
    /\ current_index = 0
    /\ visits = <<>>
    /\ agent_pc = "created"
    /\ agent_running = FALSE
    /\ mission = NoMission
    /\ cycle = NoCycle
    /\ session_stats = [scanned |-> 0, interested |-> 0]
    /\ cycle_count = 0
    /\ strategy = "s0"
    /\ strategy_call = "none"
    /\ lock = Free
    /\ caller_pc = [c \in Callers |-> "idle"]
    /\ low_since_reset = FALSE
    /\ handed = <<>>
    /\ events = <<>>

(* the state after construction: a TacticEngine with no history, no        *)
(* performance record                                                      *)
InitQueue ==
    /\ InitStore
    /\ mission_tactic_history = [m \in Missions |-> <<>>]
    /\ tactic_performance = <<>>
    /\ missions = load_missions(<<>>)

(* a second passes; only the seconds in which a task is inserted (there is *)
(* one already, and one more to come) are told apart                       *)
Tick ==
    /\ clock < MaxClock
    /\ \E t \in Ids : tasks[t].created_at = clock
    /\ Cardinality(uuids) < MaxTasks
    /\ clock' = clock + 1
    /\ UNCHANGED <<queueVars, outsideQueue>>

ClientEnqueue(maxTasks) ==
    \E c \in Clients, tp \in ClientTasks :
        /\ op[c] = Idle
        /\ Cardinality(uuids) < maxTasks
        /\ enqueue_task(tp[1], NoPayload, tp[2])
        /\ UNCHANGED <<clock, db_lock, op, outsideQueue>>

ClientPopBegin ==
    \E c \in Clients, wt \in WorkerTypes :
        /\ pop_task_begin(c, wt)
        /\ UNCHANGED <<clock, outsideQueue>>

ClientPopCommit ==
    \E c \in Clients :
        /\ pop_task_commit(c)
        /\ UNCHANGED <<clock, outsideQueue>>

ClientComplete ==
    \E c \in Clients, t \in uuids :
        /\ op[c] = Idle
        /\ complete_task(t)
        /\ UNCHANGED <<clock, outsideQueue>>

ClientFailRead(maxFails) ==
    \E c \in Clients, t \in uuids :
        /\ FailCallsMade < maxFails
        /\ fail_task_read(c, t)
        /\ UNCHANGED <<clock, outsideQueue>>

ClientFailWrite ==
    \E c \in Clients :
        /\ fail_task_write(c)
        /\ UNCHANGED <<clock, outsideQueue>>

NextQueue ==
    \/ Tick
    \/ ClientEnqueue(MaxTasks)
    \/ ClientPopBegin
    \/ ClientPopCommit
    \/ ClientComplete
    \/ ClientFailRead(MaxQueueFails)
    \/ ClientFailWrite

SpecQueue == InitQueue /\ [][NextQueue]_vars

NextRetry ==
    \/ ClientEnqueue(MaxRetryTasks)
    \/ ClientPopBegin
    \/ ClientPopCommit
    \/ ClientComplete
    \/ ClientFailRead(MaxFailCalls)
    \/ ClientFailWrite

SpecRetry == InitQueue /\ [][NextRetry]_vars

(***************************************************************************)
(* SpecRoles: tasks of the four types are enqueued, and the clients call   *)
(* pop_task with every worker_type.                                        *)
(***************************************************************************)
RoleTasks == {<<"search", 5>>, <<"discovery", 10>>, <<"fetch_readme", 5>>, <<"analyze", 10>>}

RoleEnqueue ==
    \E tp \in RoleTasks :
        /\ Cardinality(uuids) < MaxRoleTasks
        /\ enqueue_task(tp[1], NoPayload, tp[2])
        /\ UNCHANGED <<clock, db_lock, op, outsideQueue>>

NextRoles ==
    \/ RoleEnqueue
    \/ ClientPopBegin
    \/ ClientPopCommit

SpecRoles == InitQueue /\ [][NextRoles]_vars

(***************************************************************************)
(* TunerStorage.save_finding: INSERT INTO findings ... and commit,         *)
(* returning cursor.lastrowid; the UNIQUE constraint on url makes the      *)
(* INSERT of a known url raise IntegrityError, which is answered with -1.  *)
(***************************************************************************)
Urls == {"u1", "u2", "u3"}
Titles == {"a", "b"}

Duplicate == -1

HasUrl(url) == \E i \in 1..Len(findings) : findings[i].url = url

(* id INTEGER PRIMARY KEY AUTOINCREMENT, and no row is ever deleted *)
LastRowId == Len(findings) + 1

(* as save_finding, without the UNIQUE constraint on url *)
save_finding_not_unique(title, url) ==
    [rows |-> Append(findings, [id |-> LastRowId, title |-> title, url |-> url,
                                status |-> "pending"]),
     ret |-> LastRowId]

save_finding(title, url) ==
    IF HasUrl(url)
    THEN [rows |-> findings, ret |-> Duplicate]
    ELSE [rows |-> Append(findings, [id |-> LastRowId, title |-> title, url |-> url,
                                     status |-> "pending"]),
          ret |-> LastRowId]

(***************************************************************************)
(* SpecFindings: any sequence of save_finding calls.                       *)
(***************************************************************************)
CallSaveFinding ==
    \E title \in Titles, url \in Urls :
        /\ Len(save_log) < MaxSaves
        /\ findings' = save_finding(title, url).rows
        /\ save_log' = Append(save_log, [title |-> title, url |-> url,
                                         ret |-> save_finding(title, url).ret])
        /\ UNCHANGED <<queueVars, clock, monitorVars, engineVars, managerVars, checkpointVars, events, handed, task, bisectVars, workerVars>>

NextFindings == CallSaveFinding

SpecFindings == InitQueue /\ [][NextFindings]_vars

(***************************************************************************)
(* tuner/monitor.py, RateLimitMonitor, and Hunter.search_raw.  Headers are *)
(* the two rate-limit headers of a response, each present or not.          *)
(***************************************************************************)
Max(a, b) == IF a > b THEN a ELSE b

(* update_from_headers: each header that is present replaces its field *)
update_from_headers(headers) ==
    [remaining |-> IF headers.remaining # NoHeader THEN headers.remaining
                   ELSE monitor.remaining,
     reset_time |-> IF headers.reset_time # NoHeader THEN headers.reset_time
                    ELSE monitor.reset_time]

(* as wait_seconds, without the second added to the time left *)
wait_seconds_no_margin == Max(0, monitor.reset_time - now)

(* check_and_sleep: wait_seconds = max(0, self.reset_time - now + 1) *)
wait_seconds == Max(0, monitor.reset_time - now + 1)

(* as after_sleep, with remaining left as it was *)
after_sleep_unchanged == monitor

(* check_and_sleep, after the sleep: self.remaining = 5000 *)
after_sleep == [monitor EXCEPT !.remaining = DefaultRemaining]

(* search_raw: what the caller gets for a response of the API; a failed    *)
(* request (exception in get or json) is answered with ([], {}, 0)         *)
search_raw(response) ==
    IF response.ok
    THEN [items |-> response.items, headers |-> response.headers,
          total_count |-> response.total_count]
    ELSE [items |-> <<>>, headers |-> NoHeaders, total_count |-> 0]

(***************************************************************************)
(* Hunter._fetch_readme.  raw.githubusercontent.com answers the request of *)
(* each file name with a status and a body, or the request raises.         *)
(***************************************************************************)
Filenames == <<"README.md", "readme.md", "README.rst", "README.txt">>

Raised == [status |-> 0, text |-> ""]

RawAnswers ==
    {Raised, [status |-> 404, text |-> "404: Not Found"], [status |-> 200, text |-> ""],
     [status |-> 200, text |-> "r1"], [status |-> 200, text |-> "r2"]}

(* the loop over the file names from the i-th on: the body of the first    *)
(* answer with status 200; a request that raises is skipped; "" at the end *)
RECURSIVE fetch_readme_from(_, _)
fetch_readme_from(answers, i) ==
    IF i > Len(Filenames) THEN ""
    ELSE IF answers[i].status = 200 THEN answers[i].text
    ELSE fetch_readme_from(answers, i + 1)

fetch_readme(answers) == fetch_readme_from(answers, 1)

(* a call of the Hunter by a handler, and what it returned *)
SearchAnswer(query, page, res) ==
    [call |-> "search_raw", query |-> query, page |-> page, items |-> res.items,
     headers |-> res.headers, total_count |-> res.total_count, text |-> ""]

ReadmeAnswer(text) == [NoAnswer EXCEPT !.call = "fetch_readme", !.text = text]

(***************************************************************************)
(* tuner/slicer.py.  A date is an instant, counted in microseconds, the    *)
(* resolution of the datetimes that parse() returns and add() computes.    *)
(***************************************************************************)
Abs(x) == IF x < 0 THEN -x ELSE x

(* s.add(seconds=diff_seconds / 2): half the width is a float number of    *)
(* seconds, which the datetime arithmetic rounds to a whole microsecond;   *)
(* half a microsecond is rounded up or down, as the float falls.           *)
Midpoints(start, end) == {m \in start..end : Abs(2 * m - (start + end)) <= 1}

(* the (start, midpoint, end) triples split_date_range can return *)
split_date_range(start, end) == {<<start, m, end>> : m \in Midpoints(start, end)}

(* f"{query} created:{start}..{end}": one more created: term on the query *)
get_query_with_date(query, start, end) ==
    [text |-> query.text, created |-> Append(query.created, <<start, end>>)]

(***************************************************************************)
(* WorkerManager._handle_discovery_task: the tasks it enqueues, in order,  *)
(* for the task t it handles, given the total_count of the probe and the   *)
(* triple split_date_range returns.                                        *)
(***************************************************************************)
Cap == 1000
PerPage == 100
MaxPages == 10
SearchPriority == 5

Min(a, b) == IF a < b THEN a ELSE b

(* math.ceil(total_count / 100.0) *)
Ceil(n, d) == (n + d - 1) \div d

(* as Pages, with the page count rounded down *)
Pages_floor(total_count) ==
    LET pages == Min(MaxPages, total_count \div PerPage)
    IN  IF pages = 0 /\ total_count > 0 THEN 1 ELSE pages

Pages(total_count) ==
    LET pages == Min(MaxPages, Ceil(total_count, PerPage))
    IN  IF pages = 0 /\ total_count > 0 THEN 1 ELSE pages

DiscoveryPayload(query, start, end) ==
    [NoPayload EXCEPT !.query = query, !.start_date = start, !.end_date = end]

SearchPayload(query, page) == [NoPayload EXCEPT !.query = query, !.page = page]

(* as handle_discovery_task, with the halves enqueued at the parent's priority *)
handle_discovery_task_flat(t, total_count, split) ==
    LET payload == tasks[t].payload
        base_query == payload.query
        full_query == get_query_with_date(base_query, payload.start_date, payload.end_date)
    IN  IF total_count > Cap
        THEN << [type |-> "discovery",
                 payload |-> DiscoveryPayload(base_query, split[1], split[2]),
                 priority |-> tasks[t].priority],
                [type |-> "discovery",
                 payload |-> DiscoveryPayload(base_query, split[2], split[3]),
                 priority |-> tasks[t].priority] >>
        ELSE [p \in 1..Pages(total_count) |->
                [type |-> "search", payload |-> SearchPayload(full_query, p),
                 priority |-> SearchPriority]]

handle_discovery_task(t, total_count, split) ==
    LET payload == tasks[t].payload
        base_query == payload.query
        full_query == get_query_with_date(base_query, payload.start_date, payload.end_date)
    IN  IF total_count > Cap
        THEN << [type |-> "discovery",
                 payload |-> DiscoveryPayload(base_query, split[1], split[2]),
                 priority |-> tasks[t].priority + 1],
                [type |-> "discovery",
                 payload |-> DiscoveryPayload(base_query, split[2], split[3]),
                 priority |-> tasks[t].priority + 1] >>
        ELSE [p \in 1..Pages(total_count) |->
                [type |-> "search", payload |-> SearchPayload(full_query, p),
                 priority |-> SearchPriority]]

(* the tasks table after enqueue_task of each element of seq, in order *)
EnqueueAll(seq) ==
    tasks @@ [i \in (NewId)..(NewId + Len(seq) - 1) |->
                NewRow(seq[i - NewId + 1].type, seq[i - NewId + 1].payload,
                       seq[i - NewId + 1].priority)]

NewIds(seq) == (NewId)..(NewId + Len(seq) - 1)

(***************************************************************************)
(* SpecBisect: one discovery task is enqueued, and a Scout that is handed  *)
(* the discovery tasks, in the order of the queue, runs the body of its    *)
(* loop on each: the handler, then complete_task.                          *)
(***************************************************************************)
Totals == {0, 1, 101, 1000, 1001}
BaseQuery == [text |-> "x", created |-> <<>>]
SeedPriorities == {0, 10}
(* the rate-limit headers of the probe's response *)
ProbeHeaders == {NoHeaders, [remaining |-> 2, reset_time |-> 1]}

(* how the API answers the probe of a window that holds count results:     *)
(* with the count, with an error body that has no total_count (rate limit, *)
(* validation), or not at all (the request raises)                         *)
Answers == {"ok", "error", "failed"}

(* what a window holds when the probe does not report it *)
UnreportedTotals == {101}

Probe(answer, count, headers) ==
    CASE answer = "ok" ->
           [ok |-> TRUE, items |-> <<>>, headers |-> headers, total_count |-> count]
      [] answer = "error" ->
           [ok |-> TRUE, items |-> <<>>, headers |-> headers, total_count |-> 0]
      [] answer = "failed" ->
           [ok |-> FALSE, items |-> <<>>, headers |-> NoHeaders, total_count |-> 0]

DiscoveryTasks == {t \in Ids : tasks[t].type = "discovery"}

SeedDiscovery ==
    \E end \in 0..MaxWidth, p \in SeedPriorities :
        /\ uuids = {}
        /\ enqueue_task("discovery", DiscoveryPayload(BaseQuery, 0, end), p)
        /\ parent' = parent @@ (NewId :> 0)
        /\ UNCHANGED <<clock, monitorVars, engineVars, managerVars, checkpointVars, events, handed, db_lock, op, task, findingsVars, probes, held, workerVars>>

(* the row ORDER BY priority DESC, created_at ASC LIMIT 1 gives, among the *)
(* pending discovery tasks, is marked 'processing' and handed to the Scout *)
ClaimDiscovery ==
    \E t \in DiscoveryTasks :
        /\ \A u \in DiscoveryTasks : tasks[u].status # "processing"
        /\ tasks[t].status = "pending"
        /\ \A u \in DiscoveryTasks \ {t} : tasks[u].status = "pending" => Before(t, u)
        /\ tasks' = [tasks EXCEPT ![t].status = "processing"]
        /\ task' = [task EXCEPT !["scout"] = t]
        /\ UNCHANGED <<uuids, clock, monitorVars, engineVars, managerVars, checkpointVars, events, handed, db_lock, op, fail_calls, findingsVars, bisectVars,
                       workerVars>>

HandleDiscovery ==
    \E answer \in Answers, headers \in ProbeHeaders :
      \E count \in IF answer = "ok" THEN Totals ELSE UnreportedTotals :
        LET t == task["scout"]
            res == search_raw(Probe(answer, count, headers))
            total_count == res.total_count
        IN  /\ t \in Ids
            /\ monitor' = update_from_headers(res.headers)
            /\ net_failed' = IF answer = "failed" THEN net_failed \cup {t}
                             ELSE net_failed \ {t}
            /\ held' = held @@ (t :> count)
            /\ tasks[t].status = "processing"
            /\ total_count > Cap => Cardinality(DiscoveryTasks) + 2 <= MaxDiscovery
            /\ \E split \in split_date_range(tasks[t].payload.start_date,
                                              tasks[t].payload.end_date) :
                 LET seq == handle_discovery_task(t, total_count, split)
                 IN  /\ tasks' = [EnqueueAll(seq) EXCEPT ![t].status = "completed"]
                     /\ uuids' = uuids \cup NewIds(seq)
                     /\ fail_calls' = fail_calls @@ [i \in NewIds(seq) |-> 0]
                     /\ parent' = parent @@ [i \in NewIds(seq) |-> t]
                     /\ probes' = probes @@ (t :> total_count)
            /\ UNCHANGED <<clock, now, wake_at, received, engineVars, managerVars, checkpointVars,
                           events, handed, db_lock, op, task, findingsVars, workerVars>>

NextBisect ==
    \/ SeedDiscovery
    \/ ClaimDiscovery
    \/ HandleDiscovery

SpecBisect == InitQueue /\ [][NextBisect]_vars

(***************************************************************************)
(* Spec: `tuner start`.  The queue is seeded with one search task, then    *)
(* WorkerManager.start gathers the Scout, the Fetcher and two Processors.  *)
(* Each loop is followed statement by statement; any of pop_task, the      *)
(* handler and complete_task may raise, which takes the loop to its        *)
(* except branch with the variable `task` as the last assignment left it.  *)
(***************************************************************************)
FetchPriority == 5
AnalyzePriority == 10
SeedPriority == 10

Role(w) ==
    CASE w = "scout" -> "scout"
      [] w = "fetcher" -> "fetcher"
      [] OTHER -> "processor"

(* the items a search call can return *)
SearchResults == {<<>>, <<"u1">>}

(* responses of the search API that carry no rate-limit header *)
PlainResponses ==
    {[ok |-> TRUE, items |-> items, headers |-> NoHeaders, total_count |-> Len(items)] :
        items \in SearchResults}

ItemPayload(item) == [NoPayload EXCEPT !.item = item]

(* cli.py: the seed, enqueued before the workers start *)
Seed ==
    /\ \A w \in Workers : pc[w] = "created"
    /\ uuids = {}
    /\ enqueue_task("search", SearchPayload(BaseQuery, 1), SeedPriority)
    /\ parent' = parent @@ (NewId :> 0)
    /\ UNCHANGED <<clock, monitorVars, engineVars, managerVars, checkpointVars, events, handed, db_lock, op, task, findingsVars, probes, held, workerVars>>

Start ==
    /\ ~running
    /\ \A w \in Workers : pc[w] = "created"
    /\ running' = TRUE
    /\ pc' = [w \in Workers |-> "loop"]
    /\ UNCHANGED <<queueVars, clock, monitorVars, engineVars, managerVars, checkpointVars, events, handed, task, findingsVars, bisectVars, faults>>

(* stop(): self.running = False, then self.hunter.close() *)
Stop ==
    /\ running
    /\ running' = FALSE
    /\ UNCHANGED <<queueVars, clock, monitorVars, engineVars, managerVars, checkpointVars, events, handed, task, findingsVars, bisectVars, pc, faults>>

(* stop() has closed the http client of the Hunter: its requests raise,    *)
(* and search_raw and _fetch_readme answer as for any failed request       *)
HunterClosed == ~running /\ \A w \in Workers : pc[w] # "created"

FailedResponse == [ok |-> FALSE, items |-> <<>>, headers |-> NoHeaders, total_count |-> 0]

(* as WorkerExit, with the flag looked at in the middle of an iteration *)
WorkerExit_abandoning(w) ==
    /\ pc[w] \in {"loop", "handle", "complete"}
    /\ ~running
    /\ pc' = [pc EXCEPT ![w] = "done"]
    /\ UNCHANGED <<queueVars, clock, monitorVars, engineVars, managerVars, checkpointVars, events, handed, task, findingsVars, bisectVars, running,
                   faults>>

(* while self.running: false *)
WorkerExit(w) ==
    /\ pc[w] = "loop"
    /\ ~running
    /\ pc' = [pc EXCEPT ![w] = "done"]
    /\ UNCHANGED <<queueVars, clock, monitorVars, engineVars, managerVars, checkpointVars, events, handed, task, findingsVars, bisectVars, running, faults>>

(* task = await self.queue.pop_task(role): first half *)
WorkerPopBegin(w) ==
    /\ pc[w] = "loop"
    /\ running
    /\ pop_task_begin(w, Role(w))
    /\ pc' = [pc EXCEPT ![w] = "pop"]
    /\ UNCHANGED <<clock, monitorVars, engineVars, managerVars, checkpointVars, events, handed, task, findingsVars, bisectVars, running, faults>>

(* pop_task returns and task is assigned; if not task: sleep, continue *)
(* as WorkerPopCommit, with a Scout that goes from the claim to the        *)
(* handler                                                                 *)
WorkerPopCommit_unchecked(w) ==
    /\ pc[w] = "pop"
    /\ pop_task_commit(w)
    /\ task' = [task EXCEPT ![w] = op[w].sel]
    /\ pc' = [pc EXCEPT ![w] = IF op[w].sel = None THEN "loop" ELSE "handle"]
    /\ handed' = IF op[w].sel # None THEN Bump(handed, op[w].sel) ELSE handed
    /\ events' = IF Role(w) = "scout" /\ op[w].sel # None THEN <<"claim">> ELSE events
    /\ UNCHANGED <<clock, monitorVars, engineVars, managerVars, checkpointVars, findingsVars,
                   bisectVars, running, faults>>

WorkerPopCommit(w) ==
    /\ pc[w] = "pop"
    /\ pop_task_commit(w)
    /\ task' = [task EXCEPT ![w] = op[w].sel]
    /\ pc' = [pc EXCEPT ![w] = IF op[w].sel = None THEN "loop"
                               ELSE IF Role(w) = "scout" THEN "check" ELSE "handle"]
    /\ handed' = IF op[w].sel # None THEN Bump(handed, op[w].sel) ELSE handed
    /\ events' = IF Role(w) = "scout" /\ op[w].sel # None THEN <<"claim">> ELSE events
    /\ UNCHANGED <<clock, monitorVars, engineVars, managerVars, checkpointVars, findingsVars,
                   bisectVars, running, faults>>

(* pop_task raises: task is not assigned.  In the first iteration the name *)
(* is unbound, and `if task:` in the except branch raises out of the loop. *)
WorkerPopRaises(w, maxFaults) ==
    /\ pc[w] = "loop"
    /\ running
    /\ faults < maxFaults
    /\ faults' = faults + 1
    /\ pc' = [pc EXCEPT ![w] = IF task[w] = Unbound THEN "crashed" ELSE "except"]
    /\ UNCHANGED <<queueVars, clock, monitorVars, engineVars, managerVars, checkpointVars, events, handed, task, findingsVars, bisectVars, running>>

(* await self.monitor.check_and_sleep("Scout"): the test, and the start of *)
(* the sleep if there is one                                               *)
ScoutCheck(w) ==
    /\ pc[w] = "check"
    /\ IF monitor.remaining < SafetyBuffer /\ wait_seconds > 0
       THEN /\ pc' = [pc EXCEPT ![w] = "sleeping"]
            /\ wake_at' = now + wait_seconds
       ELSE /\ pc' = [pc EXCEPT ![w] = "handle"]
            /\ wake_at' = wake_at
    /\ UNCHANGED handed
    /\ events' = Append(events, "checkpoint")
    /\ UNCHANGED <<queueVars, clock, task, findingsVars, bisectVars, running, faults,
                   monitor, now, net_failed, received, engineVars, managerVars, checkpointVars>>

(* asyncio.sleep(wait_seconds) is over; self.remaining = 5000 *)
ScoutWake(w) ==
    /\ pc[w] = "sleeping"
    /\ now >= wake_at
    /\ monitor' = after_sleep
    /\ pc' = [pc EXCEPT ![w] = "handle"]
    /\ UNCHANGED <<queueVars, clock, task, findingsVars, bisectVars, running, faults,
                   now, wake_at, net_failed, received, engineVars, managerVars, checkpointVars, events, handed>>

(* as ScoutHandle, with a fetch_readme task for the first item only *)
ScoutHandle_first_item(w, responses) ==
    /\ pc[w] = "handle"
    /\ Role(w) = "scout"
    /\ tasks[task[w]].type = "search"
    /\ db_lock = Free
    /\ \E response \in responses :
        LET got == IF HunterClosed THEN FailedResponse ELSE response
            res == search_raw(got)
            seq == [i \in 1..Min(1, Len(res.items)) |->
                      [type |-> "fetch_readme", payload |-> ItemPayload(res.items[i]),
                       priority |-> FetchPriority]]
        IN  /\ monitor' = update_from_headers(res.headers)
            /\ net_failed' = IF got.ok THEN net_failed \ {task[w]}
                             ELSE net_failed \cup {task[w]}
            /\ received' = SearchAnswer(tasks[task[w]].payload.query,
                                        tasks[task[w]].payload.page, res)
            /\ tasks' = EnqueueAll(seq)
            /\ uuids' = uuids \cup NewIds(seq)
            /\ fail_calls' = fail_calls @@ [i \in NewIds(seq) |-> 0]
            /\ parent' = parent @@ [i \in NewIds(seq) |-> task[w]]
            /\ UNCHANGED handed
            /\ events' = events \o <<"query", "update">>
                                \o [i \in 1..Len(seq) |-> "enqueue"]
    /\ pc' = [pc EXCEPT ![w] = "complete"]
    /\ UNCHANGED <<clock, now, wake_at, engineVars, managerVars, checkpointVars, db_lock, op,
                   task, findingsVars, probes, held, running, faults>>

(* _handle_search_task: the search call, update_from_headers, and one      *)
(* fetch_readme task per item of the results                               *)
ScoutHandle(w, responses) ==
    /\ pc[w] = "handle"
    /\ Role(w) = "scout"
    /\ tasks[task[w]].type = "search"
    /\ db_lock = Free
    /\ \E response \in responses :
        LET got == IF HunterClosed THEN FailedResponse ELSE response
            res == search_raw(got)
            seq == [i \in 1..Len(res.items) |->
                      [type |-> "fetch_readme", payload |-> ItemPayload(res.items[i]),
                       priority |-> FetchPriority]]
        IN  /\ monitor' = update_from_headers(res.headers)
            /\ net_failed' = IF got.ok THEN net_failed \ {task[w]}
                             ELSE net_failed \cup {task[w]}
            /\ received' = SearchAnswer(tasks[task[w]].payload.query,
                                        tasks[task[w]].payload.page, res)
            /\ tasks' = EnqueueAll(seq)
            /\ uuids' = uuids \cup NewIds(seq)
            /\ fail_calls' = fail_calls @@ [i \in NewIds(seq) |-> 0]
            /\ parent' = parent @@ [i \in NewIds(seq) |-> task[w]]
            /\ UNCHANGED handed
            /\ events' = events \o <<"query", "update">>
                                \o [i \in 1..Len(seq) |-> "enqueue"]
    /\ pc' = [pc EXCEPT ![w] = "complete"]
    /\ UNCHANGED <<clock, now, wake_at, engineVars, managerVars, checkpointVars, db_lock, op,
                   task, findingsVars, probes, held, running, faults>>

(* the answers to the requests of the Fetcher in the worker loops: no file  *)
(* name is found, or the first one is                                      *)
PlainFetches ==
    {[i \in 1..Len(Filenames) |-> [status |-> 404, text |-> "404: Not Found"]],
     [i \in 1..Len(Filenames) |-> [status |-> 200, text |-> "r1"]]}

AnalyzePayload(item, readme) == [NoPayload EXCEPT !.item = item, !.readme = readme]

(* as FetcherHandle, with the analyze task enqueued whatever was fetched *)
FetcherHandle_always(w, fetches) ==
    /\ pc[w] = "handle"
    /\ Role(w) = "fetcher"
    /\ \E answers \in fetches :
        LET got == IF HunterClosed THEN [i \in 1..Len(Filenames) |-> Raised] ELSE answers
            readme_content == fetch_readme(got)
        IN  /\ received' = ReadmeAnswer(readme_content)
            /\ enqueue_task("analyze",
                            AnalyzePayload(tasks[task[w]].payload.item, readme_content),
                            AnalyzePriority)
            /\ parent' = parent @@ (NewId :> task[w])
    /\ pc' = [pc EXCEPT ![w] = "complete"]
    /\ UNCHANGED <<clock, monitor, now, wake_at, net_failed, engineVars, managerVars,
                   checkpointVars, events, handed, db_lock, op, task, findingsVars, probes, held,
                   running, faults>>

(* fetch_worker: _fetch_readme, then an analyze task if the content is not *)
(* empty                                                                   *)
FetcherHandle(w, fetches) ==
    /\ pc[w] = "handle"
    /\ Role(w) = "fetcher"
    /\ \E answers \in fetches :
        LET got == IF HunterClosed THEN [i \in 1..Len(Filenames) |-> Raised] ELSE answers
            readme_content == fetch_readme(got)
        IN  /\ received' = ReadmeAnswer(readme_content)
            /\ IF readme_content # ""
               THEN /\ enqueue_task("analyze",
                                    AnalyzePayload(tasks[task[w]].payload.item,
                                                   readme_content),
                                    AnalyzePriority)
                    /\ parent' = parent @@ (NewId :> task[w])
               ELSE UNCHANGED <<queueVars, parent>>
    /\ pc' = [pc EXCEPT ![w] = "complete"]
    /\ UNCHANGED <<clock, monitor, now, wake_at, net_failed, engineVars, managerVars,
                   checkpointVars, events, handed, db_lock, op, task, findingsVars, probes, held,
                   running, faults>>

(* processor_worker: save_finding of the repository of the task *)
(* as ProcessorHandle, with a duplicate treated as an error *)
ProcessorHandle_strict(w) ==
    /\ pc[w] = "handle"
    /\ Role(w) = "processor"
    /\ LET url == tasks[task[w]].payload.item
           r == save_finding("a", url)
       IN  /\ findings' = r.rows
           /\ save_log' = Append(save_log, [title |-> "a", url |-> url, ret |-> r.ret])
           /\ pc' = [pc EXCEPT ![w] = IF r.ret = Duplicate THEN "except" ELSE "complete"]
    /\ UNCHANGED <<queueVars, clock, monitorVars, engineVars, managerVars, checkpointVars,
                   events, handed, task, bisectVars, running, faults>>

ProcessorHandle(w) ==
    /\ pc[w] = "handle"
    /\ Role(w) = "processor"
    /\ LET url == tasks[task[w]].payload.item
           r == save_finding("a", url)
       IN  /\ findings' = r.rows
           /\ save_log' = Append(save_log, [title |-> "a", url |-> url, ret |-> r.ret])
    /\ pc' = [pc EXCEPT ![w] = "complete"]
    /\ UNCHANGED <<queueVars, clock, monitorVars, engineVars, managerVars, checkpointVars, events, handed, task, bisectVars, running, faults>>

(* the body of the loop raises before complete_task *)
WorkerHandleRaises(w, maxFaults) ==
    /\ pc[w] = "handle"
    /\ faults < maxFaults
    /\ faults' = faults + 1
    /\ pc' = [pc EXCEPT ![w] = "except"]
    /\ UNCHANGED <<queueVars, clock, monitorVars, engineVars, managerVars, checkpointVars, events, handed, task, findingsVars, bisectVars, running>>

(* await self.queue.complete_task(task['id']) *)
WorkerComplete(w) ==
    /\ pc[w] = "complete"
    /\ complete_task(task[w])
    /\ pc' = [pc EXCEPT ![w] = "loop"]
    /\ UNCHANGED handed
    /\ events' = IF Role(w) = "scout" THEN Append(events, "complete") ELSE events
    /\ UNCHANGED <<clock, monitorVars, engineVars, managerVars, checkpointVars, task,
                   findingsVars, bisectVars, running, faults>>

WorkerCompleteRaises(w) ==
    /\ pc[w] = "complete"
    /\ faults < MaxFaults
    /\ faults' = faults + 1
    /\ pc' = [pc EXCEPT ![w] = "except"]
    /\ UNCHANGED <<queueVars, clock, monitorVars, engineVars, managerVars, checkpointVars, events, handed, task, findingsVars, bisectVars, running>>

(* except: if task: await self.queue.fail_task(task['id'], ...): the SELECT *)
WorkerFailRead(w) ==
    /\ pc[w] = "except"
    /\ task[w] # None
    /\ fail_task_read(w, task[w])
    /\ pc' = [pc EXCEPT ![w] = "failing"]
    /\ UNCHANGED <<clock, monitorVars, engineVars, managerVars, checkpointVars, events, handed, task, findingsVars, bisectVars, running, faults>>

(* as WorkerFailWrite, with an except branch that only logs and sleeps *)
WorkerFailWrite_logged(w) ==
    /\ pc[w] = "failing"
    /\ op' = [op EXCEPT ![w] = Idle]
    /\ pc' = [pc EXCEPT ![w] = "loop"]
    /\ UNCHANGED <<tasks, uuids, db_lock, fail_calls, clock, monitorVars, engineVars,
                   managerVars, checkpointVars, events, handed, task, findingsVars, bisectVars,
                   running, faults>>

(* ... the UPDATE; then the sleep and the next iteration *)
WorkerFailWrite(w) ==
    /\ pc[w] = "failing"
    /\ fail_task_write(w)
    /\ pc' = [pc EXCEPT ![w] = "loop"]
    /\ UNCHANGED <<clock, monitorVars, engineVars, managerVars, checkpointVars, events, handed, task, findingsVars, bisectVars, running, faults>>

(* except: task is None: nothing to fail *)
WorkerFailSkip(w) ==
    /\ pc[w] = "except"
    /\ task[w] = None
    /\ pc' = [pc EXCEPT ![w] = "loop"]
    /\ UNCHANGED <<queueVars, clock, monitorVars, engineVars, managerVars, checkpointVars, events, handed, task, findingsVars, bisectVars, running, faults>>

Next ==
    \/ Seed
    \/ Start
    \/ Stop
    \/ \E w \in Workers : WorkerExit(w)
    \/ \E w \in Workers : WorkerPopBegin(w)
    \/ \E w \in Workers : WorkerPopCommit(w)
    \/ \E w \in Workers : WorkerPopRaises(w, MaxFaults)
    \/ \E w \in Workers : ScoutCheck(w)
    \/ \E w \in Workers : ScoutHandle(w, PlainResponses)
    \/ \E w \in Workers : FetcherHandle(w, PlainFetches)
    \/ \E w \in Workers : ProcessorHandle(w)
    \/ \E w \in Workers : WorkerHandleRaises(w, MaxFaults)
    \/ \E w \in Workers : WorkerComplete(w)
    \/ \E w \in Workers : WorkerCompleteRaises(w)
    \/ \E w \in Workers : WorkerFailRead(w)
    \/ \E w \in Workers : WorkerFailWrite(w)
    \/ \E w \in Workers : WorkerFailSkip(w)

Spec == InitQueue /\ [][Next]_vars

(***************************************************************************)
(* FairStop: the worker loops with handlers that may raise, under the      *)
(* asyncio event loop, which goes on running a coroutine as long as one    *)
(* can go on.  Nothing obliges an exception to be raised, nor stop() to be *)
(* called.                                                                 *)
(***************************************************************************)
WorkerStep(w) ==
    \/ WorkerExit(w)
    \/ WorkerPopBegin(w)
    \/ WorkerPopCommit(w)
    \/ ScoutCheck(w)
    \/ ScoutHandle(w, PlainResponses)
    \/ FetcherHandle(w, PlainFetches)
    \/ ProcessorHandle(w)
    \/ WorkerComplete(w)
    \/ WorkerFailRead(w)
    \/ WorkerFailWrite(w)

NextStop ==
    \/ Seed
    \/ Start
    \/ Stop
    \/ \E w \in Workers : WorkerStep(w)
    \/ \E w \in Workers : WorkerHandleRaises(w, MaxStopFaults)

FairStop ==
    /\ InitQueue
    /\ [][NextStop]_vars
    /\ WF_vars(\E w \in Workers : WorkerStep(w))

(***************************************************************************)
(* FairProcessors: the two Processors on analyze tasks that the Fetcher    *)
(* enqueues at any time, several for the same repository.  The event loop  *)
(* is fair to each Processor, and a statement that finds the database      *)
(* locked gets its turn: sqlite retries it for 5 s, while a transaction of *)
(* the queue is a few statements long and an idle Processor sleeps 0.5 s   *)
(* between two pop_task calls.                                             *)
(***************************************************************************)
Processors == {w \in Workers : Role(w) = "processor"}

AnalyzeTasks == {t \in Ids : tasks[t].type = "analyze"}

AnalyzedUrls == {"u1", "u2"}

EnqueueAnalyze ==
    /\ Cardinality(AnalyzeTasks) < MaxAnalyzeTasks
    /\ \E url \in AnalyzedUrls :
           enqueue_task("analyze", ItemPayload(url), AnalyzePriority)
    /\ parent' = parent @@ (NewId :> 0)
    /\ UNCHANGED <<clock, monitorVars, engineVars, managerVars, checkpointVars, events, handed,
                   db_lock, op, task, findingsVars, probes, held, workerVars>>

ProcessorStep(w) ==
    \/ WorkerPopBegin(w)
    \/ WorkerPopCommit(w)
    \/ ProcessorHandle(w)
    \/ WorkerComplete(w)

NextProcessors ==
    \/ EnqueueAnalyze
    \/ Start
    \/ \E w \in Processors : ProcessorStep(w)

FairProcessors ==
    /\ InitQueue
    /\ [][NextProcessors]_vars
    /\ \A w \in Processors : SF_vars(ProcessorStep(w))

(***************************************************************************)
(* SpecStaleTask: the two Processors on analyze tasks, with pop_task calls *)
(* that raise: the except branch then finds in `task` the task of the      *)
(* latest pop_task call that returned.                                     *)
(***************************************************************************)
NextStaleTask ==
    \/ EnqueueAnalyze
    \/ Start
    \/ \E w \in Processors : ProcessorStep(w)
    \/ \E w \in Processors : WorkerPopRaises(w, MaxPopFaults)
    \/ \E w \in Processors : WorkerFailRead(w)
    \/ \E w \in Processors : WorkerFailWrite(w)
    \/ \E w \in Processors : WorkerFailSkip(w)

SpecStaleTask == InitQueue /\ [][NextStaleTask]_vars

(***************************************************************************)
(* FairPipeline: the four worker loops on the seed and its follow-up       *)
(* tasks, running for ever (stop() is not called), with pop_task calls and *)
(* handlers that return or raise.  The event loop is fair to each worker,  *)
(* and a statement that finds the database locked gets its turn.           *)
(***************************************************************************)
PipelineStep(w) ==
    \/ WorkerPopBegin(w)
    \/ WorkerPopCommit(w)
    \/ ScoutCheck(w)
    \/ ScoutHandle(w, PlainResponses)
    \/ FetcherHandle(w, PlainFetches)
    \/ ProcessorHandle(w)
    \/ WorkerComplete(w)
    \/ WorkerFailRead(w)
    \/ WorkerFailWrite(w)
    \/ WorkerFailSkip(w)

NextPipeline ==
    \/ Seed
    \/ Start
    \/ \E w \in Workers : PipelineStep(w)
    \/ \E w \in Workers : WorkerPopRaises(w, MaxPipelineFaults)
    \/ \E w \in Workers : WorkerHandleRaises(w, MaxPipelineFaults)

FairPipeline ==
    /\ InitQueue
    /\ [][NextPipeline]_vars
    /\ WF_vars(Seed)
    /\ WF_vars(Start)
    /\ \A w \in Workers : SF_vars(PipelineStep(w))

(***************************************************************************)
(* FairRestart: `tuner agent` run, ended at any moment (Ctrl-C cancels the *)
(* coroutines of asyncio.run, or the process is killed) and run again on   *)
(* the same database.  Each run seeds the queue and starts the workers.    *)
(***************************************************************************)
(* the process ends: every coroutine ends where it stands, and sqlite      *)
(* rolls back the transaction that was open                                *)
ProcessExit ==
    /\ running
    /\ faults < MaxExits
    /\ faults' = faults + 1
    /\ running' = FALSE
    /\ pc' = [w \in Workers |-> "done"]
    /\ op' = [c \in Conns |-> Idle]
    /\ db_lock' = Free
    /\ UNCHANGED <<tasks, uuids, fail_calls, clock, monitorVars, engineVars, managerVars,
                   checkpointVars, events, handed, task, findingsVars, bisectVars>>

(* _run_agent again: a new WorkerManager, the seed, manager.start() *)
Restart ==
    /\ ~running
    /\ \A w \in Workers : pc[w] = "done"
    /\ enqueue_task("search", SearchPayload(BaseQuery, 1), SeedPriority)
    /\ parent' = parent @@ (NewId :> 0)
    /\ running' = TRUE
    /\ pc' = [w \in Workers |-> "loop"]
    /\ task' = [c \in Conns |-> Unbound]
    /\ monitor' = [remaining |-> DefaultRemaining, reset_time |-> 0]
    /\ UNCHANGED <<clock, db_lock, op, now, wake_at, net_failed, received, engineVars,
                   managerVars, checkpointVars, events, handed, findingsVars, probes, held,
                   faults>>

RunStep(w) ==
    \/ WorkerPopBegin(w)
    \/ WorkerPopCommit(w)
    \/ ScoutCheck(w)
    \/ ScoutHandle(w, PlainResponses)
    \/ FetcherHandle(w, PlainFetches)
    \/ ProcessorHandle(w)
    \/ WorkerComplete(w)

NextRestart ==
    \/ Seed
    \/ Start
    \/ ProcessExit
    \/ Restart
    \/ \E w \in Workers : RunStep(w)

FairRestart ==
    /\ InitQueue
    /\ [][NextRestart]_vars
    /\ WF_vars(Seed)
    /\ WF_vars(Start)
    /\ WF_vars(Restart)
    /\ \A w \in Workers : SF_vars(RunStep(w))

(***************************************************************************)
(* SpecHandlerFault: the worker loops with handlers that raise, often      *)
(* enough to exhaust the retries of a task; pop_task, complete_task and    *)
(* fail_task do not raise.                                                 *)
(***************************************************************************)
NextHandlerFault ==
    \/ Seed
    \/ Start
    \/ Stop
    \/ \E w \in Workers : WorkerStep(w)
    \/ \E w \in Workers : WorkerHandleRaises(w, MaxHandlerFaults)

SpecHandlerFault == InitQueue /\ [][NextHandlerFault]_vars

(***************************************************************************)
(* SpecFetcher: the Fetcher alone, on fetch_readme tasks that the Scout    *)
(* enqueues at any time; every file name is answered in every way, and     *)
(* stop() may be called.                                                   *)
(***************************************************************************)
FetchedItems == {"u1", "u2"}

AllFetches == [1..Len(Filenames) -> RawAnswers]

FetchTasks == {t \in Ids : tasks[t].type = "fetch_readme"}

EnqueueFetch ==
    /\ Cardinality(FetchTasks) < MaxFetchTasks
    /\ \E item \in FetchedItems :
           enqueue_task("fetch_readme", ItemPayload(item), FetchPriority)
    /\ parent' = parent @@ (NewId :> 0)
    /\ UNCHANGED <<clock, monitorVars, engineVars, managerVars, checkpointVars, events, handed,
                   db_lock, op, task, findingsVars, probes, held, workerVars>>

NextFetcher ==
    \/ EnqueueFetch
    \/ Start
    \/ Stop
    \/ WorkerExit("fetcher")
    \/ WorkerPopBegin("fetcher")
    \/ WorkerPopCommit("fetcher")
    \/ FetcherHandle("fetcher", AllFetches)
    \/ WorkerComplete("fetcher")

SpecFetcher == InitQueue /\ [][NextFetcher]_vars

(***************************************************************************)
(* SpecScout: the Scout alone, on search tasks enqueued at any time, with  *)
(* the time passing, responses that carry rate-limit headers, and          *)
(* requests that fail.                                                     *)
(***************************************************************************)
RemainingHeaders == {NoHeader, 2, 5}
ResetHeaders == {NoHeader} \cup 1..(MaxNow - 1)

Responses ==
    {[ok |-> TRUE, items |-> items,
      headers |-> [remaining |-> rem, reset_time |-> res], total_count |-> Len(items)] :
        items \in SearchResults, rem \in RemainingHeaders, res \in ResetHeaders}
    \cup {FailedResponse}

SearchTasks == {t \in Ids : tasks[t].type = "search"}

EnqueueSearch ==
    /\ Cardinality(SearchTasks) < MaxScoutTasks
    /\ enqueue_task("search", SearchPayload(BaseQuery, 1), SeedPriority)
    /\ parent' = parent @@ (NewId :> 0)
    /\ UNCHANGED <<clock, monitorVars, engineVars, managerVars, checkpointVars, events, handed, db_lock, op, task, findingsVars, probes, held, workerVars>>

TimePasses ==
    /\ now < MaxNow
    /\ now' = now + 1
    /\ UNCHANGED <<queueVars, clock, task, findingsVars, bisectVars, workerVars,
                   monitor, wake_at, net_failed, received, engineVars, managerVars, checkpointVars, events, handed>>

NextScout ==
    \/ EnqueueSearch
    \/ Start
    \/ TimePasses
    \/ WorkerPopBegin("scout")
    \/ WorkerPopCommit("scout")
    \/ ScoutCheck("scout")
    \/ ScoutWake("scout")
    \/ ScoutHandle("scout", Responses)
    \/ WorkerComplete("scout")

SpecScout == InitQueue /\ [][NextScout]_vars

(***************************************************************************)
(* SpecSearch: the Scout on search tasks of several queries and pages,     *)
(* with responses of up to two items.                                      *)
(***************************************************************************)
PageResults == {<<>>, <<"u1">>, <<"u1", "u2">>}

PageResponses ==
    {[ok |-> TRUE, items |-> items, headers |-> headers, total_count |-> Len(items)] :
        items \in PageResults, headers \in ProbeHeaders}
    \cup {FailedResponse}

DatedQuery == get_query_with_date(BaseQuery, 0, 1)

SearchedPages == {1, 2}

EnqueueSearchPage ==
    /\ Cardinality(SearchTasks) < MaxSearchTasks
    /\ \E query \in {BaseQuery, DatedQuery}, page \in SearchedPages :
           enqueue_task("search", SearchPayload(query, page), SearchPriority)
    /\ parent' = parent @@ (NewId :> 0)
    /\ UNCHANGED <<clock, monitorVars, engineVars, managerVars, checkpointVars, events, handed,
                   db_lock, op, task, findingsVars, probes, held, workerVars>>

NextSearch ==
    \/ EnqueueSearchPage
    \/ Start
    \/ TimePasses
    \/ WorkerPopBegin("scout")
    \/ WorkerPopCommit("scout")
    \/ ScoutCheck("scout")
    \/ ScoutWake("scout")
    \/ ScoutHandle("scout", PageResponses)
    \/ WorkerComplete("scout")

SpecSearch == InitQueue /\ [][NextSearch]_vars

(***************************************************************************)
(* SpecSearchRetry: the Scout on one search task whose handler raises in   *)
(* the middle of its loop over the items: an item that lacks one of the    *)
(* keys read at workers.py:94-96, or an enqueue_task call that raises.     *)
(* The fetch_readme tasks of the items before it are committed, each by    *)
(* its own enqueue_task call.                                              *)
(***************************************************************************)
RetriedResponses ==
    {[ok |-> TRUE, items |-> items, headers |-> NoHeaders, total_count |-> Len(items)] :
        items \in PageResults}

ScoutHandleRaises(w, responses, maxFaults) ==
    /\ pc[w] = "handle"
    /\ Role(w) = "scout"
    /\ tasks[task[w]].type = "search"
    /\ db_lock = Free
    /\ faults < maxFaults
    /\ \E response \in responses :
        LET got == IF HunterClosed THEN FailedResponse ELSE response
            res == search_raw(got)
        IN  \E k \in 0..(Len(res.items) - 1) :
            LET seq == [i \in 1..k |->
                          [type |-> "fetch_readme", payload |-> ItemPayload(res.items[i]),
                           priority |-> FetchPriority]]
            IN  /\ monitor' = update_from_headers(res.headers)
                /\ net_failed' = IF got.ok THEN net_failed \ {task[w]}
                                 ELSE net_failed \cup {task[w]}
                /\ received' = SearchAnswer(tasks[task[w]].payload.query,
                                            tasks[task[w]].payload.page, res)
                /\ tasks' = EnqueueAll(seq)
                /\ uuids' = uuids \cup NewIds(seq)
                /\ fail_calls' = fail_calls @@ [i \in NewIds(seq) |-> 0]
                /\ parent' = parent @@ [i \in NewIds(seq) |-> task[w]]
                /\ UNCHANGED handed
                /\ events' = events \o <<"query", "update">>
                                    \o [i \in 1..Len(seq) |-> "enqueue"]
    /\ faults' = faults + 1
    /\ pc' = [pc EXCEPT ![w] = "except"]
    /\ UNCHANGED <<clock, now, wake_at, engineVars, managerVars, checkpointVars, db_lock, op,
                   task, findingsVars, probes, held, running>>

NextSearchRetry ==
    \/ Seed
    \/ Start
    \/ WorkerPopBegin("scout")
    \/ WorkerPopCommit("scout")
    \/ ScoutCheck("scout")
    \/ ScoutHandle("scout", RetriedResponses)
    \/ ScoutHandleRaises("scout", RetriedResponses, MaxSearchFaults)
    \/ WorkerComplete("scout")
    \/ WorkerFailRead("scout")
    \/ WorkerFailWrite("scout")

SpecSearchRetry == InitQueue /\ [][NextSearchRetry]_vars

(***************************************************************************)
(* FairScout: as SpecScout, with discovery tasks enqueued too, and the     *)
(* event loop fair to the Scout: a coroutine that can go on does.          *)
(***************************************************************************)
EnqueueDiscovery ==
    /\ Cardinality(DiscoveryTasks) < MaxScoutDiscovery
    /\ enqueue_task("discovery", DiscoveryPayload(BaseQuery, 0, MaxWidth), SeedPriority)
    /\ parent' = parent @@ (NewId :> 0)
    /\ UNCHANGED <<clock, monitorVars, engineVars, managerVars, checkpointVars, events, handed, db_lock, op, task, findingsVars, probes, held, workerVars>>

ScoutStep ==
    \/ WorkerPopBegin("scout")
    \/ WorkerPopCommit("scout")
    \/ ScoutCheck("scout")
    \/ ScoutWake("scout")
    \/ ScoutHandle("scout", Responses)
    \/ WorkerComplete("scout")

NextScoutFair ==
    \/ EnqueueSearch
    \/ EnqueueDiscovery
    \/ Start
    \/ TimePasses
    \/ ScoutStep

FairScout ==
    /\ InitQueue
    /\ [][NextScoutFair]_vars
    /\ WF_vars(Start)
    /\ WF_vars(TimePasses)
    /\ WF_vars(ScoutStep)

(* the ids of the tasks of a run of FairScout: the tasks enqueued and one  *)
(* fetch_readme task for each search task                                  *)
ScoutIds == 1..(2 * MaxScoutTasks + MaxScoutDiscovery)

(***************************************************************************)
(* tuner/tactics.py, TacticEngine.  Weights and success rates are counted  *)
(* in hundredths.  A mission with no entry in _mission_tactic_history has  *)
(* the empty history: every read is .get(mission_name, []).                *)
(***************************************************************************)
(* seq[-n:] *)
LastN(seq, n) == SubSeq(seq, Max(1, Len(seq) - n + 1), Len(seq))

Entries(seq) == {seq[i] : i \in 1..Len(seq)}

(* select_tactic, lines 133-149: the weight of a tactic in the draw, in    *)
(* units of 1/2,000,000: base_weight * (0.3 + 0.7 * success_rate) when the *)
(* performance data names the tactic, halved for the tactic chosen last,   *)
(* and at least 0.1                                                        *)
SelectWeight(name, mission_name, performance_data) ==
    LET base_weight == tactics[name]
        adjusted_weight == IF name \in DOMAIN performance_data
                           THEN base_weight * (3000 + 70 * performance_data[name])
                           ELSE base_weight * 10000
        history == mission_tactic_history[mission_name]
        penalised == IF history # <<>> /\ history[Len(history)] = name
                     THEN adjusted_weight
                     ELSE 2 * adjusted_weight
    IN  Max(200000, penalised)

(* random.choices draws a tactic of positive weight; the choice is         *)
(* appended and the last HistoryLimit entries are kept                     *)
select_tactic(mission_name, performance_data) ==
    \E selected \in {name \in Pool : SelectWeight(name, mission_name, performance_data) > 0} :
        /\ mission_tactic_history' =
               [mission_tactic_history EXCEPT
                   ![mission_name] = LastN(Append(@, selected), HistoryLimit)]
        /\ returned' = [call |-> "select_tactic", mission |-> mission_name,
                        tactic |-> selected, rate |-> 0]

(* as Available, with only the latest choice excluded *)
Available_but_last(history) ==
    LET available == Pool \ Entries(LastN(history, 1))
    IN  IF available = {} THEN Pool ELSE available

(* rotate_tactic, lines 169-176: the tactics outside history[-3:], or the  *)
(* whole pool when there is none                                           *)
Available(history) ==
    LET recent_tactics == Entries(LastN(history, RecentWindow))
        available == Pool \ recent_tactics
    IN  IF available = {} THEN Pool ELSE available

(* rotate_tactic: random.choice of an available tactic, appended to the    *)
(* history of the mission                                                  *)
rotate_tactic(mission_name) ==
    \E selected \in Available(mission_tactic_history[mission_name]) :
        /\ mission_tactic_history' =
               [mission_tactic_history EXCEPT ![mission_name] = Append(@, selected)]
        /\ returned' = [call |-> "rotate_tactic", mission |-> mission_name,
                        tactic |-> selected, rate |-> 0]

(* 0.5 + (1.5 * success_rate) *)
NewWeight(success_rate) == 50 + (3 * success_rate) \div 2

(* as update_tactic_weight, with the new weight stored as computed *)
update_tactic_weight_unclamped(tactic_name, success_rate) ==
    /\ tactics' = IF tactic_name \in DOMAIN tactics
                  THEN [tactics EXCEPT ![tactic_name] = NewWeight(success_rate)]
                  ELSE tactics
    /\ returned' = [call |-> "update_tactic_weight", mission |-> "none",
                    tactic |-> tactic_name, rate |-> success_rate]

(* update_tactic_weight: max(0.3, min(2.0, new_weight)) for a tactic of    *)
(* the pool, nothing for another name                                      *)
update_tactic_weight(tactic_name, success_rate) ==
    /\ tactics' = IF tactic_name \in DOMAIN tactics
                  THEN [tactics EXCEPT
                           ![tactic_name] = Max(MinWeight, Min(MaxWeight, NewWeight(success_rate)))]
                  ELSE tactics
    /\ returned' = [call |-> "update_tactic_weight", mission |-> "none",
                    tactic |-> tactic_name, rate |-> success_rate]

(***************************************************************************)
(* SpecTactics: any sequence of calls of the TacticEngine, as the research *)
(* cycle makes them (manager.py:140, 236 and 265), for two missions.  The  *)
(* engine starts with no history or in the middle of a run, with the       *)
(* history that HistoryLimit - 1 select_tactic calls leave: every tactic   *)
(* has a positive weight in every draw, so every sequence of names is such *)
(* a history.                                                              *)
(***************************************************************************)
(* success rates of get_tactic_success_rates, by tactic *)
PerformanceData ==
    {<<>>} \cup {[name \in {"trending"} |-> 0], [name \in Pool |-> 50]}

(* results_accepted / results_found, and rates a caller may pass *)
SuccessRates == {-100, -14, 0, 10, 100, 120}
UpdatedNames == {"trending", "fresh_projects", "no_such_tactic"}

RecordedHistories ==
    {<<>>, [i \in 1..(HistoryLimit - 1) |-> TacticNames[((i - 1) % Len(TacticNames)) + 1]]}

outsideEngine == <<queueVars, clock, task, findingsVars, bisectVars, workerVars, monitorVars,
                   managerVars, checkpointVars, events, handed>>

InitTactics ==
    /\ InitStore
    /\ mission_tactic_history \in [Missions -> RecordedHistories]
    /\ tactic_performance = <<>>
    /\ missions = load_missions(<<>>)

SelectTactic ==
    /\ tactic_calls < MaxTacticCalls
    /\ \E mission_name \in Missions, performance_data \in PerformanceData :
           select_tactic(mission_name, performance_data)
    /\ tactic_calls' = tactic_calls + 1
    /\ UNCHANGED <<tactics, outsideEngine>>

RotateTactic ==
    /\ tactic_calls < MaxTacticCalls
    /\ \E mission_name \in Missions : rotate_tactic(mission_name)
    /\ tactic_calls' = tactic_calls + 1
    /\ UNCHANGED <<tactics, outsideEngine>>

UpdateTacticWeight ==
    /\ tactic_calls < MaxTacticCalls
    /\ \E tactic_name \in UpdatedNames, success_rate \in SuccessRates :
           update_tactic_weight(tactic_name, success_rate)
    /\ tactic_calls' = tactic_calls + 1
    /\ UNCHANGED <<mission_tactic_history, outsideEngine>>

NextTactics == SelectTactic \/ RotateTactic \/ UpdateTacticWeight

SpecTactics == InitTactics /\ [][NextTactics]_vars

(***************************************************************************)
(* Numbers with a fractional part (success rates, thresholds) are kept as  *)
(* fractions <<numerator, denominator>> in lowest terms, the denominator   *)
(* positive.                                                               *)
(***************************************************************************)
RECURSIVE GCD(_, _)
GCD(a, b) == IF b = 0 THEN Abs(a) ELSE GCD(b, a % b)

Frac(n, d) == LET g == GCD(n, d) IN <<n \div g, d \div g>>

FracAdd(x, y) == Frac(x[1] * y[2] + y[1] * x[2], x[2] * y[2])
FracSub(x, y) == Frac(x[1] * y[2] - y[1] * x[2], x[2] * y[2])
FracMul(x, y) == Frac(x[1] * y[1], x[2] * y[2])
FracLess(x, y) == x[1] * y[2] < y[1] * x[2]
FracMax(x, y) == IF FracLess(x, y) THEN y ELSE x
FracMin(x, y) == IF FracLess(y, x) THEN y ELSE x

(***************************************************************************)
(* TunerStorage, the tactic_performance table (storage.py:261-324).        *)
(***************************************************************************)
(* log_tactic_performance: success_rate = results_accepted /               *)
(* max(1, results_found), then the INSERT of the row and the commit        *)
PerformanceRow(mission_name, tactic_name, results_found, results_accepted) ==
    LET success_rate == Frac(results_accepted, Max(1, results_found))
    IN  [mission_name |-> mission_name, tactic_name |-> tactic_name,
         results_found |-> results_found, results_accepted |-> results_accepted,
         success_rate |-> success_rate]

log_tactic_performance(mission_name, tactic_name, results_found, results_accepted) ==
    tactic_performance' =
        Append(tactic_performance,
               PerformanceRow(mission_name, tactic_name, results_found, results_accepted))

(* as SelectedRows, with no WHERE clause for any mission_name *)
SelectedRows_unfiltered(mission_name) == 1..Len(tactic_performance)

(* the rows of the SELECT: WHERE mission_name = ? only for a mission_name  *)
(* that is true                                                            *)
SelectedRows(mission_name) ==
    {i \in 1..Len(tactic_performance) :
        mission_name # NoMission => tactic_performance[i].mission_name = mission_name}

RECURSIVE SumRates(_)
SumRates(rows) ==
    IF rows = {} THEN <<0, 1>>
    ELSE LET i == CHOOSE r \in rows : TRUE
         IN  FracAdd(tactic_performance[i].success_rate, SumRates(rows \ {i}))

(* AVG(success_rate) of a group *)
Avg(rows) == FracMul(SumRates(rows), <<1, Cardinality(rows)>>)

(* get_tactic_success_rates: GROUP BY tactic_name, as a dict *)
get_tactic_success_rates(mission_name) ==
    LET rows == SelectedRows(mission_name)
        names == {tactic_performance[i].tactic_name : i \in rows}
    IN  [name \in names |->
            Avg({i \in rows : tactic_performance[i].tactic_name = name})]

(***************************************************************************)
(* AdaptiveThresholds (manager.py:18-67).                                  *)
(***************************************************************************)
RECURSIVE SumValues(_, _)
SumValues(f, names) ==
    IF names = {} THEN <<0, 1>>
    ELSE LET name == CHOOSE n \in names : TRUE
         IN  FracAdd(f[name], SumValues(f, names \ {name}))

(* get_threshold: the cached value; or, for similarity_threshold and a     *)
(* mission with performance records, defaults[key] * (0.6 + 0.8 *          *)
(* (1 - avg_success)) cut to [0.1, 0.5]; or the default, also when the     *)
(* query of the success rates raises (storage_ok false)                    *)
get_threshold(mission_name, key, storage_ok) ==
    IF cache[mission_name][key] # Absent THEN cache[mission_name][key]
    ELSE LET success_rates == get_tactic_success_rates(mission_name)
             avg_success == FracMul(SumValues(success_rates, DOMAIN success_rates),
                                    <<1, Cardinality(DOMAIN success_rates)>>)
             adjusted == FracMul(Defaults[key],
                                 FracAdd(<<3, 5>>,
                                         FracMul(<<4, 5>>, FracSub(<<1, 1>>, avg_success))))
         IN  IF storage_ok /\ DOMAIN success_rates # {} /\ key = "similarity_threshold"
             THEN FracMax(<<1, 10>>, FracMin(<<1, 2>>, adjusted))
             ELSE Defaults[key]

(* as adjust_threshold, with 'down' not stopped at the floor *)
adjust_threshold_no_floor(mission_name, key, direction, storage_ok) ==
    LET current == get_threshold(mission_name, key, storage_ok)
        new_val == IF direction = "down"
                   THEN FracMul(current, <<17, 20>>)
                   ELSE FracMin(<<3, 5>>, FracMul(current, <<23, 20>>))
    IN  cache' = [cache EXCEPT ![mission_name][key] = new_val]

(* adjust_threshold: max(0.1, current * 0.85) for 'down', min(0.6,         *)
(* current * 1.15) otherwise, stored in the cache of the mission           *)
adjust_threshold(mission_name, key, direction, storage_ok) ==
    LET current == get_threshold(mission_name, key, storage_ok)
        new_val == IF direction = "down"
                   THEN FracMax(<<1, 10>>, FracMul(current, <<17, 20>>))
                   ELSE FracMin(<<3, 5>>, FracMul(current, <<23, 20>>))
    IN  cache' = [cache EXCEPT ![mission_name][key] = new_val]

(***************************************************************************)
(* SpecPerformance: the research cycles log the performance of tactics for *)
(* two missions (manager.py:224).                                          *)
(***************************************************************************)
LoggedTactics == {"trending", "deep_dive"}

(* results_found and results_accepted of a cycle: accepted counts findings *)
(* of the cycle, so it is at most found                                    *)
Outcomes == {<<0, 0>>, <<10, 3>>, <<2, 2>>, <<4, 1>>}

outsideManager == <<queueVars, clock, task, findingsVars, bisectVars, workerVars, monitorVars,
                    engineVars, checkpointVars, events, handed>>

LogTacticPerformance ==
    /\ Len(tactic_performance) < MaxLogs
    /\ \E mission_name \in Missions, tactic_name \in LoggedTactics, outcome \in Outcomes :
           log_tactic_performance(mission_name, tactic_name, outcome[1], outcome[2])
    /\ UNCHANGED <<cache, adjust_calls, last_adjust, missionVars, agentVars, outsideManager>>

SpecPerformance == InitQueue /\ [][LogTacticPerformance]_vars

(***************************************************************************)
(* SpecExperience: the reflection adjusts the thresholds of two missions   *)
(* (manager.py:269, 273), starting from the performance records that       *)
(* earlier cycles have logged: none; one of a mission whose results were   *)
(* all accepted; one of each mission, none and some of the results         *)
(* accepted.                                                               *)
(***************************************************************************)
StoredPerformance ==
    {<<>>,
     <<PerformanceRow("m1", "trending", 2, 2)>>,
     <<PerformanceRow("m1", "trending", 0, 0), PerformanceRow("m2", "deep_dive", 10, 3)>>}

InitExperience ==
    /\ InitStore
    /\ mission_tactic_history = [m \in Missions |-> <<>>]
    /\ tactic_performance \in StoredPerformance
    /\ missions = load_missions(<<>>)

AdjustThreshold ==
    /\ adjust_calls < MaxAdjustCalls
    /\ \E mission_name \in Missions, key \in Keys, direction \in Directions,
          storage_ok \in BOOLEAN :
           /\ adjust_threshold(mission_name, key, direction, storage_ok)
           /\ last_adjust' = [mission |-> mission_name, key |-> key, direction |-> direction]
    /\ adjust_calls' = adjust_calls + 1
    /\ UNCHANGED <<tactic_performance, missionVars, agentVars, outsideManager>>

SpecExperience == InitExperience /\ [][AdjustThreshold]_vars

(***************************************************************************)
(* SpecMissions: MissionControl on a missions file that is read again      *)
(* before each next_mission call, as AutonomousManager.start does          *)
(* (manager.py:110-111), and may have been rewritten in between.           *)
(***************************************************************************)
MissionFiles == {<<>>, <<"m1">>, <<"m1", "m2">>, <<"m1", "m2", "m3">>}

(* as next_index, without the wrap at the end of the list *)
next_index_unwrapped(list) ==
    IF current_index + 1 < Len(list) THEN current_index + 1 ELSE current_index

(* next_mission: (self.current_index + 1) % len(self.missions) *)
next_index(list) == (current_index + 1) % Len(list)

(* next_mission on self.missions = list: None for an empty list, else the  *)
(* mission at the next index; the lists of Python count from 0             *)
next_mission(list) ==
    IF list = <<>>
    THEN /\ visits' = Append(visits, [missions |-> list, index |-> current_index,
                                      mission |-> NoMission])
         /\ UNCHANGED current_index
    ELSE /\ current_index' = next_index(list)
         /\ visits' = Append(visits, [missions |-> list, index |-> next_index(list),
                                      mission |-> list[next_index(list) + 1]])

outsideMissions == <<tactic_performance, cache, adjust_calls, last_adjust, agentVars,
                     outsideManager>>

InitMissions ==
    /\ InitStore
    /\ mission_tactic_history = [m \in Missions |-> <<>>]
    /\ tactic_performance = <<>>
    /\ \E file \in MissionFiles : missions = load_missions(file)

LoadMissions ==
    /\ \E file \in MissionFiles : missions' = load_missions(file)
    /\ UNCHANGED <<current_index, visits, outsideMissions>>

NextMission ==
    /\ Len(visits) < MaxVisits
    /\ next_mission(missions)
    /\ UNCHANGED <<missions, outsideMissions>>

NextMissions == LoadMissions \/ NextMission

SpecMissions == InitMissions /\ [][NextMissions]_vars

(***************************************************************************)
(* SpecCheckpoint: RateLimitMonitor.check_and_sleep called by several      *)
(* coroutines at once, under `async with self._lock`, while responses      *)
(* update the monitor and the time passes.                                 *)
(***************************************************************************)
outsideCheckpoint == <<queueVars, clock, task, findingsVars, bisectVars, workerVars,
                       net_failed, received, engineVars, managerVars, events, handed>>

(* a coroutine calls check_and_sleep *)
CheckpointEnter(c) ==
    /\ caller_pc[c] = "idle"
    /\ caller_pc' = [caller_pc EXCEPT ![c] = "acquire"]
    /\ UNCHANGED <<lock, low_since_reset, monitor, now, wake_at, outsideCheckpoint>>

(* as CheckpointAcquire, with no lock to wait for *)
CheckpointAcquire_unlocked(c) ==
    /\ caller_pc[c] = "acquire"
    /\ lock' = c
    /\ caller_pc' = [caller_pc EXCEPT ![c] = "test"]
    /\ UNCHANGED <<low_since_reset, monitor, now, wake_at, outsideCheckpoint>>

(* async with self._lock: the lock is free and the caller takes it *)
CheckpointAcquire(c) ==
    /\ caller_pc[c] = "acquire"
    /\ lock = Free
    /\ lock' = c
    /\ caller_pc' = [caller_pc EXCEPT ![c] = "test"]
    /\ UNCHANGED <<low_since_reset, monitor, now, wake_at, outsideCheckpoint>>

(* if self.remaining < self.safety_buffer ... if wait_seconds > 0: the     *)
(* sleep starts; otherwise the block ends and the lock is released         *)
CheckpointTest(c) ==
    /\ caller_pc[c] = "test"
    /\ IF monitor.remaining < SafetyBuffer /\ wait_seconds > 0
       THEN /\ caller_pc' = [caller_pc EXCEPT ![c] = "sleeping"]
            /\ wake_at' = now + wait_seconds
            /\ UNCHANGED lock
       ELSE /\ caller_pc' = [caller_pc EXCEPT ![c] = "idle"]
            /\ lock' = IF lock = c THEN Free ELSE lock
            /\ UNCHANGED wake_at
    /\ UNCHANGED <<low_since_reset, monitor, now, outsideCheckpoint>>

(* the sleep is over: self.remaining = 5000, and the lock is released *)
CheckpointWake(c) ==
    /\ caller_pc[c] = "sleeping"
    /\ now >= wake_at
    /\ monitor' = after_sleep
    /\ low_since_reset' = FALSE
    /\ caller_pc' = [caller_pc EXCEPT ![c] = "idle"]
    /\ lock' = IF lock = c THEN Free ELSE lock
    /\ UNCHANGED <<now, wake_at, outsideCheckpoint>>

(* a handler passes the headers of a response to update_from_headers *)
ResponseArrives ==
    /\ \E rem \in RemainingHeaders, res \in ResetHeaders :
           /\ monitor' = update_from_headers([remaining |-> rem, reset_time |-> res])
           /\ low_since_reset' = (low_since_reset \/ (rem # NoHeader /\ rem < SafetyBuffer))
    /\ UNCHANGED <<lock, caller_pc, now, wake_at, outsideCheckpoint>>

NextCheckpoint ==
    \/ \E c \in Callers : CheckpointEnter(c)
    \/ \E c \in Callers : CheckpointAcquire(c)
    \/ \E c \in Callers : CheckpointTest(c)
    \/ \E c \in Callers : CheckpointWake(c)
    \/ ResponseArrives
    \/ TimePasses

SpecCheckpoint == InitQueue /\ [][NextCheckpoint]_vars

(***************************************************************************)
(* AutonomousManager (manager.py:70-319).                                  *)
(***************************************************************************)
AiInterval == 50

(* get_recent_tactic_performance: the rows of the mission, the newest      *)
(* first, at most limit of them                                            *)
get_recent_tactic_performance(mission_name, limit) ==
    LET rows == SelectSeq(tactic_performance, LAMBDA row : row.mission_name = mission_name)
        n == Min(limit, Len(rows))
    IN  [i \in 1..n |-> rows[Len(rows) - i + 1]]

(* sum(p['success_rate'] for p in recent_perf[:k]) / k *)
RECURSIVE SumFirst(_, _)
SumFirst(perf, k) ==
    IF k = 0 \/ perf = <<>> THEN <<0, 1>>
    ELSE FracAdd(perf[1].success_rate, SumFirst(Tail(perf), k - 1))

AvgFirst(perf, k) == FracMul(SumFirst(perf, k), <<1, k>>)

(* _should_use_ai_optimization, with the cycle count already incremented *)
should_use_ai_optimization(count, recent_perf) ==
    \/ count % AiInterval = 0
    \/ Len(recent_perf) >= 5 /\ FracLess(AvgFirst(recent_perf, 5), <<1, 20>>)

(* a dict of success rates, in hundredths, as select_tactic reads it *)
Hundredths(rates) == [name \in DOMAIN rates |-> (100 * rates[name][1]) \div rates[name][2]]

(* Hunter.search_with_tactic returns the findings of the search, here the  *)
(* urls of at most two repositories, or raises                             *)
search_with_tactic == {[raised |-> TRUE, findings |-> <<>>]}
                      \cup {[raised |-> FALSE, findings |-> f] :
                               f \in {<<>>, <<"u1">>, <<"u1", "u2">>}}

ManagerFiles == {<<"m1">>, <<"m1", "m2">>}
Strategies == {"s1", "s2"}

outsideAgent == <<queueVars, clock, task, save_log, bisectVars, workerVars, monitorVars,
                  tactic_calls, adjust_calls, checkpointVars, events, handed>>

(* start, lines 102-107 *)
AgentStart ==
    /\ agent_pc = "created"
    /\ agent_pc' = "loop"
    /\ agent_running' = TRUE
    /\ UNCHANGED <<mission, cycle, session_stats, cycle_count, strategy, strategy_call,
                   missionVars, findings, engineVars, tactic_performance, cache, last_adjust,
                   outsideAgent>>

(* stop *)
AgentStop ==
    /\ agent_running
    /\ agent_running' = FALSE
    /\ UNCHANGED <<agent_pc, mission, cycle, session_stats, cycle_count, strategy,
                   strategy_call, missionVars, findings, engineVars, tactic_performance,
                   cache, last_adjust, outsideAgent>>

(* while self.running: load_missions, next_mission; the loop left, finally *)
(* closes the storage                                                      *)
AgentLoop ==
    /\ agent_pc = "loop"
    /\ IF ~agent_running
       THEN /\ agent_pc' = "closed"
            /\ UNCHANGED <<mission, missionVars>>
       ELSE /\ \E file \in ManagerFiles :
                   /\ missions' = load_missions(file)
                   /\ next_mission(load_missions(file))
            /\ mission' = visits'[Len(visits')].mission
            /\ agent_pc' = IF mission' = NoMission THEN "loop" ELSE "research"
    /\ UNCHANGED <<agent_running, cycle, session_stats, cycle_count, strategy, strategy_call,
                   findings, engineVars, tactic_performance, cache, last_adjust, outsideAgent>>

(* run_research_cycle, lines 134-165: the success rates, the tactic, the   *)
(* threshold and the search                                                *)
AgentSearch ==
    /\ agent_pc = "research"
    /\ cycle_count < MaxCycles
    /\ select_tactic(mission, Hundredths(get_tactic_success_rates(mission)))
    /\ \E result \in search_with_tactic :
           /\ cycle' = [tactic |-> returned'.tactic,
                        threshold |-> get_threshold(mission, "similarity_threshold", TRUE),
                        found |-> Len(result.findings), accepted |-> 0, rejected |-> 0,
                        todo |-> result.findings, raised |-> result.raised]
           /\ agent_pc' = IF result.findings = <<>> THEN "finally" ELSE "screen"
    /\ UNCHANGED <<agent_running, mission, session_stats, cycle_count, strategy,
                   strategy_call, missionVars, findings, tactics, tactic_calls,
                   tactic_performance, cache, last_adjust, outsideAgent>>

(* lines 181-221, one finding: it is counted, saved, and, unless it is a   *)
(* duplicate, accepted or filtered by its similarity                       *)
AgentScreen ==
    /\ agent_pc = "screen"
    /\ \E similar \in BOOLEAN :
           LET url == Head(cycle.todo)
               saved == save_finding("a", url)
               fresh == saved.ret # Duplicate
           IN  /\ findings' = saved.rows
               /\ session_stats' =
                      [scanned |-> session_stats.scanned + 1,
                       interested |-> session_stats.interested
                                          + IF fresh /\ similar THEN 1 ELSE 0]
               /\ cycle' = [cycle EXCEPT
                               !.todo = Tail(@),
                               !.accepted = @ + IF fresh /\ similar THEN 1 ELSE 0,
                               !.rejected = @ + IF fresh /\ ~similar THEN 1 ELSE 0]
               /\ agent_pc' = IF Tail(cycle.todo) = <<>> THEN "finally" ELSE "screen"
    /\ UNCHANGED <<agent_running, mission, cycle_count, strategy, strategy_call, missionVars,
                   engineVars, tactic_performance, cache, last_adjust, outsideAgent>>

(* finally, lines 222-238: the performance is logged and the weight of the *)
(* tactic updated; an exception of the search then ends start (lines       *)
(* 125-129)                                                                *)
AgentLog ==
    /\ agent_pc = "finally"
    /\ log_tactic_performance(mission, cycle.tactic, cycle.found, cycle.accepted)
    /\ IF cycle.found > 0
       THEN update_tactic_weight(cycle.tactic, (100 * cycle.accepted) \div cycle.found)
       ELSE UNCHANGED <<tactics, returned>>
    /\ agent_pc' = IF cycle.raised THEN "closed" ELSE "reflect"
    /\ agent_running' = IF cycle.raised THEN FALSE ELSE agent_running
    /\ UNCHANGED <<mission, cycle, session_stats, cycle_count, strategy, strategy_call,
                   missionVars, findings, mission_tactic_history, tactic_calls, cache,
                   last_adjust, outsideAgent>>

(* reflect_and_optimize, lines 245-277 *)
AgentReflect ==
    /\ agent_pc = "reflect"
    /\ cycle_count' = cycle_count + 1
    /\ strategy_call' = "none"
    /\ LET recent_perf == get_recent_tactic_performance(mission, 10)
           recent_success == AvgFirst(recent_perf, 3)
           rotate == FracLess(recent_success, <<1, 10>>)
           down == ~rotate /\ FracLess(recent_success, <<1, 5>>)
           up == FracLess(<<3, 5>>, recent_success)
           reviewed == session_stats.scanned > 0 /\ Len(recent_perf) >= 3
       IN  /\ IF reviewed /\ rotate
              THEN rotate_tactic(mission)
              ELSE UNCHANGED <<mission_tactic_history, returned>>
           /\ IF reviewed /\ (down \/ up)
              THEN /\ adjust_threshold(mission, "similarity_threshold",
                                       IF down THEN "down" ELSE "up", TRUE)
                   /\ last_adjust' = [mission |-> mission, key |-> "similarity_threshold",
                                      direction |-> IF down THEN "down" ELSE "up"]
              ELSE UNCHANGED <<cache, last_adjust>>
           /\ agent_pc' = IF /\ session_stats.scanned > 0
                             /\ should_use_ai_optimization(cycle_count', recent_perf)
                          THEN "optimize" ELSE "rest"
    /\ UNCHANGED <<agent_running, mission, cycle, session_stats, strategy,
                   missionVars, findings, tactics, tactic_calls, tactic_performance,
                   outsideAgent>>

(* as AgentOptimize, with no try around the call of the collaborator *)
AgentOptimize_uncaught ==
    /\ agent_pc = "optimize"
    /\ \E outcome \in {"raised", "nothing"} \cup Strategies :
           /\ strategy_call' = IF outcome \in Strategies THEN "returned" ELSE outcome
           /\ IF outcome \in Strategies
              THEN /\ strategy' = outcome
                   /\ session_stats' = [scanned |-> 0, interested |-> 0]
              ELSE UNCHANGED <<strategy, session_stats>>
           /\ agent_pc' = IF outcome = "raised" THEN "closed" ELSE "rest"
           /\ agent_running' = IF outcome = "raised" THEN FALSE ELSE agent_running
    /\ UNCHANGED <<mission, cycle, cycle_count, missionVars, findings,
                   engineVars, tactic_performance, cache, last_adjust, outsideAgent>>

(* lines 282-301: generate_strategy_v2 raises, returns nothing, or returns *)
(* a strategy, which is written to strategy.json and resets the counters   *)
AgentOptimize ==
    /\ agent_pc = "optimize"
    /\ \E outcome \in {"raised", "nothing"} \cup Strategies :
           /\ strategy_call' = IF outcome \in Strategies THEN "returned" ELSE outcome
           /\ IF outcome \in Strategies
              THEN /\ strategy' = outcome
                   /\ session_stats' = [scanned |-> 0, interested |-> 0]
              ELSE UNCHANGED <<strategy, session_stats>>
    /\ agent_pc' = "rest"
    /\ UNCHANGED <<agent_running, mission, cycle, cycle_count, missionVars, findings,
                   engineVars, tactic_performance, cache, last_adjust, outsideAgent>>

(* lines 279-280, outside the try: the analytics report or the feedback    *)
(* query raises, which ends start                                          *)
AgentReportRaises ==
    /\ agent_pc = "optimize"
    /\ agent_pc' = "closed"
    /\ agent_running' = FALSE
    /\ UNCHANGED <<mission, cycle, session_stats, cycle_count, strategy, strategy_call,
                   missionVars, findings, engineVars, tactic_performance, cache, last_adjust,
                   outsideAgent>>

(* lines 120-123: the rest before the next iteration *)
AgentRest ==
    /\ agent_pc = "rest"
    /\ agent_pc' = "loop"
    /\ UNCHANGED <<agent_running, mission, cycle, session_stats, cycle_count, strategy,
                   strategy_call, missionVars, findings, engineVars, tactic_performance,
                   cache, last_adjust, outsideAgent>>

(***************************************************************************)
(* SpecManager: `tuner` running the AutonomousManager on a database that   *)
(* is new or holds the records of four cycles of an earlier run that       *)
(* accepted nothing.                                                       *)
(***************************************************************************)
EarlierPerformance ==
    {<<>>, [i \in 1..4 |-> PerformanceRow("m1", "trending", 2, 0)]}

InitManager ==
    /\ InitStore
    /\ mission_tactic_history = [m \in Missions |-> <<>>]
    /\ tactic_performance \in EarlierPerformance
    /\ missions \in ManagerFiles

NextManager ==
    \/ AgentStart \/ AgentStop \/ AgentLoop \/ AgentSearch \/ AgentScreen \/ AgentLog
    \/ AgentReflect \/ AgentOptimize \/ AgentReportRaises \/ AgentRest

SpecManager == InitManager /\ [][NextManager]_vars

(***************************************************************************)
(* SpecCycleFault: SpecManager with the storage and the local brain        *)
(* raising inside run_research_cycle.                                      *)
(***************************************************************************)
(* line 137, before the try: get_tactic_success_rates raises, which ends   *)
(* start (lines 124-128)                                                   *)
AgentRatesRaise ==
    /\ agent_pc = "research"
    /\ cycle_count < MaxCycles
    /\ agent_pc' = "closed"
    /\ agent_running' = FALSE
    /\ UNCHANGED <<mission, cycle, session_stats, cycle_count, strategy, strategy_call,
                   missionVars, findings, engineVars, tactic_performance, cache, last_adjust,
                   outsideAgent>>

(* lines 179-216, one finding: it is counted, then vectorize raises, or    *)
(* the finding is saved and update_finding_analysis raises; finally        *)
AgentScreenRaises ==
    /\ agent_pc = "screen"
    /\ \E saved_first \in BOOLEAN :
           findings' = IF saved_first THEN save_finding("a", Head(cycle.todo)).rows
                       ELSE findings
    /\ session_stats' = [session_stats EXCEPT !.scanned = @ + 1]
    /\ cycle' = [cycle EXCEPT !.raised = TRUE]
    /\ agent_pc' = "finally"
    /\ UNCHANGED <<agent_running, mission, cycle_count, strategy, strategy_call, missionVars,
                   engineVars, tactic_performance, cache, last_adjust, outsideAgent>>

NextCycleFault ==
    \/ AgentStart \/ AgentStop \/ AgentLoop \/ AgentSearch \/ AgentScreen \/ AgentLog
    \/ AgentReflect \/ AgentOptimize \/ AgentReportRaises \/ AgentRest
    \/ AgentRatesRaise \/ AgentScreenRaises

SpecCycleFault == InitManager /\ [][NextCycleFault]_vars

(***************************************************************************)
(* Steps of the queue, as seen from outside.                               *)
(***************************************************************************)
(* pop_task returns task t to connection c in this step *)
PopReturns(c, t) == op[c].kind = "pop" /\ op[c].sel = t /\ op'[c] = Idle

(* fail_task on task t finishes in this step *)
FailFinishes(c, t) == op[c].kind = "fail" /\ op[c].sel = t /\ op'[c] = Idle

(* C1: exclusivity of the claim.  Every pop_task return hands out a task   *)
(* that is 'pending' at that moment and leaves it 'processing', and a task *)
(* that is not 'pending' becomes 'pending' only by a fail_task call: so no *)
(* task id is returned by two pop_task calls without a fail_task call that *)
(* returned it to 'pending' in between, whatever the interleaving.         *)
C1_ExclusiveClaim ==
    [][\A t \in Ids :
         /\ \A c \in Conns : PopReturns(c, t) =>
                /\ tasks[t].status = "pending"
                /\ tasks'[t].status = "processing"
         /\ (tasks[t].status # "pending" /\ tasks'[t].status = "pending") =>
                \E c \in Conns : FailFinishes(c, t)]_vars

(* a task claimed again after a failure, while another client is inside    *)
(* pop_task claiming a different task                                      *)
C1_Witness ==
    \E t \in Ids, c \in Conns :
        /\ tasks[t].status = "processing"
        /\ tasks[t].retry_count = 1
        /\ op[c].kind = "pop"
        /\ op[c].sel \in Ids \ {t}

(* C2, as claimed: a task on which fail_task has been called exactly 3     *)
(* times is 'failed' (so it is neither claimable nor claimed), and one on  *)
(* which it was called fewer than 3 times is not 'failed'.                 *)
C2_FailedAfterThreeCalls ==
    \A t \in Ids :
        /\ fail_calls[t] = 3 => tasks[t].status \notin {"pending", "processing"}
        /\ fail_calls[t] < 3 => tasks[t].status # "failed"

C5_NoTaskDeleted ==
    /\ [](uuids \subseteq DOMAIN tasks)
    /\ [][\A c \in Conns, t \in Ids :
            (FailFinishes(c, t) /\ op[c].retries >= MaxRetries) =>
                (t \in DOMAIN tasks' /\ tasks'[t].status = "failed")]_vars

(* a task whose retries are exhausted: its row is there, 'failed' *)
C5_Witness ==
    \E t \in uuids : t \in Ids /\ tasks[t].status = "failed" /\ fail_calls[t] = 4

(* the first save_finding call made with the url of call k *)
FirstSave(k) ==
    CHOOSE j \in 1..k : save_log[j].url = save_log[k].url
                         /\ \A i \in 1..(j - 1) : save_log[i].url # save_log[k].url

(* C6: save_finding is idempotent on url.  The first call with a url       *)
(* returns the id of the row it stored, never -1; every later call with    *)
(* that url returns -1 and changes nothing, so the table holds one row per *)
(* url saved, still carrying the fields of the first call.                 *)
C6_SaveFindingIdempotent ==
    /\ \A i, j \in 1..Len(findings) : findings[i].url = findings[j].url => i = j
    /\ Len(findings) = Cardinality({save_log[k].url : k \in 1..Len(save_log)})
    /\ \A k \in 1..Len(save_log) :
          LET f == FirstSave(k)
          IN  /\ save_log[f].ret # Duplicate
              /\ save_log[f].ret \in 1..Len(findings)
              /\ findings[save_log[f].ret].id = save_log[f].ret
              /\ findings[save_log[f].ret].url = save_log[k].url
              /\ findings[save_log[f].ret].title = save_log[f].title
              /\ k # f => save_log[k].ret = Duplicate

(* a url saved a second time, with other fields, after another url *)
C6_Witness ==
    \E j, k \in 1..Len(save_log) :
        /\ j + 1 < k
        /\ save_log[j].url = save_log[k].url
        /\ save_log[j].title # save_log[k].title
        /\ save_log[j + 1].url # save_log[k].url

(***************************************************************************)
(* Date bisection (SpecBisect).                                            *)
(***************************************************************************)
(* the task the bisection started from *)
Root == CHOOSE t \in DiscoveryTasks : parent[t] = 0

Handled(t) == t \in DOMAIN probes

Children(t) == {u \in Ids : parent[u] = t}

Window(t) == (tasks[t].payload.start_date)..(tasks[t].payload.end_date)

Width(t) == tasks[t].payload.end_date - tasks[t].payload.start_date

(* the windows that were not split: their pages are what is searched *)
Leaves == {t \in DiscoveryTasks : Handled(t) /\ probes[t] <= Cap}

(* every discovery task has been handled: the bisection is over *)
BisectionOver ==
    /\ DiscoveryTasks # {}
    /\ \A t \in DiscoveryTasks : tasks[t].status = "completed"

(* C7: when the bisection of a window is over, the leaf windows cover the  *)
(* window (every instant of it lies in a leaf), no instant lies in two     *)
(* leaves, and the count of every leaf is at most the cap.                 *)
C7_LeavesPartitionWindow ==
    BisectionOver =>
        /\ \A x \in Window(Root) : \E t \in Leaves : x \in Window(t)
        /\ \A a, b \in Leaves : a # b => Window(a) \cap Window(b) = {}
        /\ \A t \in Leaves : probes[t] <= Cap

(* the two halves a split enqueues, in the order of their ids *)
Split(t) == Handled(t) /\ probes[t] > Cap

HalvesOf(t, m) ==
    /\ Cardinality(Children(t)) = 2
    /\ \E a, b \in Children(t) :
        /\ a < b
        /\ tasks[a].type = "discovery" /\ tasks[b].type = "discovery"
        /\ tasks[a].payload = DiscoveryPayload(tasks[t].payload.query,
                                               tasks[t].payload.start_date, m)
        /\ tasks[b].payload = DiscoveryPayload(tasks[t].payload.query, m,
                                               tasks[t].payload.end_date)
        /\ tasks[a].priority = tasks[t].priority + 1
        /\ tasks[b].priority = tasks[t].priority + 1

C9_SafeWindowPages ==
    \A t \in Leaves :
        LET n == Ceil(probes[t], PerPage)
            dated == get_query_with_date(tasks[t].payload.query,
                                         tasks[t].payload.start_date,
                                         tasks[t].payload.end_date)
        IN  /\ Cardinality(Children(t)) = n
            /\ \A u \in Children(t) :
                 /\ tasks[u].type = "search"
                 /\ tasks[u].payload.query = dated
                 /\ tasks[u].payload.page \in 1..n
            /\ \A p \in 1..n :
                 Cardinality({u \in Children(t) : tasks[u].payload.page = p}) = 1

(* a window with 101 results got its two pages, one with 1000 its ten *)
C9_Witness ==
    /\ \E t \in Leaves : probes[t] = 101 /\ Cardinality(Children(t)) = 2
    /\ \E t \in Leaves : probes[t] = 1000 /\ Cardinality(Children(t)) = 10

(* C10: the bisection terminates whatever counts the windows are given.    *)
(* A window has finitely many instants, so the bisection goes on for ever  *)
(* exactly when some half is no narrower than the window it was cut from   *)
(* and the counts given to it stay above the cap: termination for every    *)
(* assignment of counts is that every half is narrower than its parent.    *)
C10_BisectionTerminates ==
    \A u \in DiscoveryTasks :
        parent[u] # 0 => Width(u) < Width(parent[u])

(***************************************************************************)
(* Status transitions in the worker loops (Spec).                          *)
(***************************************************************************)
LegalTransitions ==
    {<<"pending", "processing">>, <<"processing", "completed">>,
     <<"processing", "pending">>, <<"processing", "failed">>}

(* C3: in every run of the worker loops, whatever raises, a task changes   *)
(* status only pending->processing, processing->completed,                 *)
(* processing->pending or processing->failed; a task that is 'completed'   *)
(* or 'failed' never changes status again.                                 *)
C3_OnlyLegalTransitions ==
    [][\A t \in Ids :
         /\ t \in DOMAIN tasks'
         /\ tasks'[t].status # tasks[t].status =>
              <<tasks[t].status, tasks'[t].status>> \in LegalTransitions]_vars

(***************************************************************************)
(* The rate-limit monitor in the Scout loop (SpecScout).                   *)
(***************************************************************************)
CheckReturns(w) == pc[w] = "check" /\ pc'[w] # "check"

SleepEnds(w) == pc[w] = "sleeping" /\ pc'[w] # "sleeping"

SearchIssued(w) == pc[w] = "handle" /\ pc'[w] = "complete"

(* C11: check_and_sleep called with remaining below safety_buffer and      *)
(* reset_time not earlier than now suspends the caller for                 *)
(* max(0, reset_time - now + 1) seconds, and remaining is 5000 when it     *)
(* resumes; called with remaining >= safety_buffer it returns at once,     *)
(* with remaining and reset_time as they were.                             *)
C11_SleepUntilReset ==
    [][/\ (CheckReturns("scout") /\ monitor.remaining < SafetyBuffer
              /\ monitor.reset_time >= now) =>
            /\ pc'["scout"] = "sleeping"
            /\ wake_at' - now = monitor.reset_time - now + 1
            /\ wake_at' - now >= 0
       /\ SleepEnds("scout") =>
            /\ now >= wake_at
            /\ pc'["scout"] = "handle"
            /\ monitor'.remaining = DefaultRemaining
       /\ (CheckReturns("scout") /\ monitor.remaining >= SafetyBuffer) =>
            /\ pc'["scout"] = "handle"
            /\ monitor' = monitor]_vars

(* the Scout has slept until after the reset and resumed with 5000 *)
C11_Witness ==
    /\ pc["scout"] = "handle"
    /\ wake_at > 0
    /\ now >= wake_at
    /\ monitor.reset_time = wake_at - 1
    /\ monitor.remaining = DefaultRemaining

(* C12: the Scout issues no search call while the last known remaining     *)
(* budget is below safety_buffer and the last known reset_time has not     *)
(* passed.                                                                 *)
C12_Backpressure ==
    [][SearchIssued("scout") =>
         ~(monitor.remaining < SafetyBuffer /\ monitor.reset_time >= now)]_vars

(* the Scout is about to search after a sleep that a low budget caused,    *)
(* and has searched before                                                 *)
C12_Witness ==
    /\ pc["scout"] = "handle"
    /\ wake_at > 0
    /\ \E t \in SearchTasks : tasks[t].status = "completed"

(* C13: with the Scout running and scheduled fairly, every discovery task  *)
(* that is enqueued is eventually claimed by the Scout, as every search    *)
(* task is.                                                                *)
C13_ScoutClaimsDiscovery ==
    \A t \in ScoutIds :
        /\ (t \in DiscoveryTasks) ~> (t \in Ids /\ tasks[t].status # "pending")
        /\ (t \in SearchTasks) ~> (t \in Ids /\ tasks[t].status # "pending")

(***************************************************************************)
(* Roles (SpecRoles).                                                      *)
(***************************************************************************)
PendingOfType(types) == {t \in Ids : tasks[t].status = "pending" /\ tasks[t].type \in types}

(* pop_task called with worker_type returns in this step, with result r *)
PopOfRoleReturns(c, worker_type, r) ==
    op[c].kind = "pop" /\ op[c].arg = worker_type /\ op[c].sel = r /\ op'[c] = Idle

(* C14: pop_task('fetcher') returns only fetch_readme tasks,               *)
(* pop_task('processor') only analyze tasks, pop_task('scout') never a     *)
(* fetch_readme or analyze task; a role none of whose types has a pending  *)
(* task gets None, whatever else is pending.                               *)
C14_RoleSpecialization ==
    [][\A c \in Conns :
        /\ \A t \in Ids :
            /\ PopOfRoleReturns(c, "fetcher", t) => tasks[t].type = "fetch_readme"
            /\ PopOfRoleReturns(c, "processor", t) => tasks[t].type = "analyze"
            /\ PopOfRoleReturns(c, "scout", t) =>
                   tasks[t].type \notin {"fetch_readme", "analyze"}
        /\ (op[c].kind = "pop" /\ op[c].arg = "fetcher" /\ op'[c] = Idle
              /\ PendingOfType({"fetch_readme"}) = {}) => op[c].sel = None
        /\ (op[c].kind = "pop" /\ op[c].arg = "processor" /\ op'[c] = Idle
              /\ PendingOfType({"analyze"}) = {}) => op[c].sel = None
        /\ (op[c].kind = "pop" /\ op[c].arg = "scout" /\ op'[c] = Idle
              /\ PendingOfType({"search", "discovery"}) = {}) => op[c].sel = None]_vars

(* the fetcher's pop_task is about to return None while an analyze task of *)
(* higher priority is pending, after a processor's pop_task has returned   *)
(* an analyze task past a pending task of another type                     *)
C14_Witness ==
    /\ \E c \in Conns : op[c].kind = "pop" /\ op[c].arg = "fetcher" /\ op[c].sel = None
    /\ PendingOfType({"analyze", "search", "discovery"}) # {}
    /\ \E t \in Ids : tasks[t].type = "analyze" /\ tasks[t].status = "processing"

(***************************************************************************)
(* Exceptions, failures and cancellation in the worker loops.              *)
(***************************************************************************)
(* C15: an exception raised while a worker claims or processes a task, in  *)
(* any iteration, the first included, does not escape the loop: no worker  *)
(* coroutine ends with an exception.                                       *)
C15_ExceptionsIsolated == \A w \in Workers : pc[w] # "crashed"

(* C16: a search task whose network call failed is not marked 'completed': *)
(* it is 'processing' until fail_task is applied, then 'pending' or        *)
(* 'failed'.                                                               *)
C16_FailedSearchRetried ==
    \A t \in net_failed : tasks[t].status # "completed"

Stopped == HunterClosed

Exited(w) == pc[w] \in {"done", "crashed"}

EngineCall(call) == tactic_calls' # tactic_calls /\ returned'.call = call

(* C18: forced rotation.  The tactic that rotate_tactic returns for a      *)
(* mission is none of the last 3 entries of the history of that mission as *)
(* it stood before the call, unless those entries hold the whole pool.     *)
C18_RotationAvoidsRecent ==
    [][\A m \in Missions :
          (EngineCall("rotate_tactic") /\ returned'.mission = m) =>
              LET before == mission_tactic_history[m]
                  last3 == {before[i] : i \in {j \in 1..Len(before) : j > Len(before) - 3}}
              IN  \/ returned'.tactic \notin last3
                  \/ Pool \subseteq last3]_vars

(* rotate_tactic has returned for a mission whose three choices before the *)
(* call were three different tactics, the oldest of them chosen again in   *)
(* no call since                                                           *)
C18_Witness ==
    /\ returned.call = "rotate_tactic"
    /\ LET history == mission_tactic_history[returned.mission]
           n == Len(history)
       IN  /\ n > 3
           /\ history[n] = returned.tactic
           /\ Cardinality({history[n - 1], history[n - 2], history[n - 3]}) = 3

(* C19: weights stay in range.  Every weight is always between 0.3 and 2.0 *)
(* (in hundredths, 30 and 200); an update_tactic_weight call on a tactic   *)
(* of the pool leaves it at 0.5 + 1.5 * success_rate cut to that range,    *)
(* whatever the weight was, and changes no other weight; of two successive *)
(* updates of a tactic, the one with the higher rate leaves no lower a     *)
(* weight.                                                                 *)
C19_WeightClamped ==
    /\ [](\A name \in Pool : tactics[name] >= 30 /\ tactics[name] <= 200)
    /\ [][EngineCall("update_tactic_weight") =>
             LET name == returned'.tactic
                 twice == 100 + 3 * returned'.rate
             IN  /\ \A other \in Pool \ {name} : tactics'[other] = tactics[other]
                 /\ name \in Pool =>
                        /\ 2 * tactics'[name] =
                               IF twice < 60 THEN 60 ELSE IF twice > 400 THEN 400 ELSE twice
                        /\ (/\ returned.call = "update_tactic_weight"
                            /\ returned.tactic = name
                            /\ returned'.rate >= returned.rate)
                               => tactics'[name] >= tactics[name]]_vars

(* a rate above 1 has just left a tactic at the upper end of the range,    *)
(* after a rate below 0 had left another tactic at the lower end           *)
C19_Witness ==
    /\ returned.call = "update_tactic_weight"
    /\ returned.rate > 100
    /\ returned.tactic \in Pool
    /\ tactics[returned.tactic] = MaxWeight
    /\ \E other \in Pool : tactics[other] = MinWeight

(* C20: bounded history.  The history recorded for a mission never holds   *)
(* more than 10 entries.                                                   *)
C20_HistoryBounded ==
    \A m \in Missions : Len(mission_tactic_history[m]) <= 10

(* the threshold of a mission, as get_threshold reports it with the        *)
(* storage answering or failing                                            *)
Thresholds(m, key) == {get_threshold(m, key, storage_ok) : storage_ok \in BOOLEAN}

(* C21: adaptive thresholds stay in range.  The similarity threshold of    *)
(* every mission is always between 0.1 and 0.6; an adjust_threshold call   *)
(* 'down' leaves max(0.1, 0.85 * current) and a call 'up' leaves           *)
(* min(0.6, 1.15 * current), current being the threshold before the call;  *)
(* the cached thresholds of the other missions and the performance        *)
(* records, from which the thresholds not cached are computed, are as      *)
(* before.                                                                 *)
C21_ThresholdInRange ==
    /\ [](\A m \in Missions : \A x \in Thresholds(m, "similarity_threshold") :
              10 * x[1] >= x[2] /\ 5 * x[1] <= 3 * x[2])
    /\ [][adjust_calls' # adjust_calls =>
             LET m == last_adjust'.mission
                 key == last_adjust'.key
                 new == cache'[m][key]
             IN  /\ \E c \in Thresholds(m, key) :
                        IF last_adjust'.direction = "down"
                        THEN IF 17 * c[1] * 10 < 20 * c[2]
                             THEN 10 * new[1] = new[2]
                             ELSE new = Frac(17 * c[1], 20 * c[2])
                        ELSE IF 23 * c[1] * 5 > 3 * 20 * c[2]
                             THEN 5 * new[1] = 3 * new[2]
                             ELSE new = Frac(23 * c[1], 20 * c[2])
                 /\ \A other \in Missions \ {m} : cache'[other] = cache[other]
                 /\ tactic_performance' = tactic_performance]_vars

(* the similarity threshold of a mission with performance records has     *)
(* just been lowered, and stopped at the floor                             *)
C21_Witness ==
    /\ last_adjust.direction = "down"
    /\ last_adjust.key = "similarity_threshold"
    /\ cache[last_adjust.mission]["similarity_threshold"] = <<1, 10>>
    /\ \E i \in 1..Len(tactic_performance) :
           tactic_performance[i].mission_name = last_adjust.mission

(* the records of a tactic logged for a mission *)
RecordsOf(m, t) ==
    {i \in 1..Len(tactic_performance) :
        tactic_performance[i].mission_name = m /\ tactic_performance[i].tactic_name = t}

(* C22: success rates.  Every record holds accepted / max(1, found), which *)
(* is 0 when nothing was found; get_tactic_success_rates of a mission      *)
(* names exactly the tactics logged for that mission, each with the mean   *)
(* of the rates of the mission's records of the tactic, whatever the       *)
(* records of other missions; a single record of 3 accepted out of 10      *)
(* gives 0.3.                                                              *)
C22_SuccessRates ==
    /\ \A i \in 1..Len(tactic_performance) :
           LET row == tactic_performance[i]
               found == IF row.results_found < 1 THEN 1 ELSE row.results_found
           IN  /\ row.success_rate[1] * found = row.results_accepted * row.success_rate[2]
               /\ row.results_found = 0 => row.success_rate[1] = 0
    /\ \A m \in Missions :
           LET rates == get_tactic_success_rates(m)
           IN  /\ DOMAIN rates = {t \in LoggedTactics : RecordsOf(m, t) # {}}
               /\ \A t \in DOMAIN rates :
                      /\ FracMul(rates[t], <<Cardinality(RecordsOf(m, t)), 1>>)
                             = SumRates(RecordsOf(m, t))
                      /\ (\E i \in RecordsOf(m, t) :
                              /\ RecordsOf(m, t) = {i}
                              /\ tactic_performance[i].results_found = 10
                              /\ tactic_performance[i].results_accepted = 3)
                             => rates[t] = <<3, 10>>

(* a tactic has two records of different rates for one mission and a       *)
(* record of a third rate for the other mission, which has also a record   *)
(* with nothing found                                                      *)
C22_Witness ==
    \E i, j, k \in 1..Len(tactic_performance) :
        LET a == tactic_performance[i]
            b == tactic_performance[j]
            c == tactic_performance[k]
        IN  /\ a.mission_name = "m1" /\ b.mission_name = "m1" /\ c.mission_name = "m2"
            /\ a.tactic_name = b.tactic_name /\ b.tactic_name = c.tactic_name
            /\ a.results_found = 10 /\ b.results_found = 0
            /\ c.success_rate = <<1, 1>>

(* the next_mission calls i..j were made on one and the same list *)
SameList(i, j) == \A k \in i..j : visits[k].missions = visits[i].missions

(* C24: round-robin.  next_mission on a list that is not empty returns a   *)
(* mission of the list; on a list of n missions that stays the same, each  *)
(* call returns the mission that follows the one returned before, the      *)
(* first following the last, so that any n calls in a row return every     *)
(* mission of the list exactly once.                                       *)
C24_RoundRobin ==
    /\ \A i \in 1..Len(visits) :
           visits[i].missions # <<>> =>
               /\ visits[i].index \in 0..(Len(visits[i].missions) - 1)
               /\ visits[i].mission = visits[i].missions[visits[i].index + 1]
    /\ \A i \in 1..(Len(visits) - 1) :
           SameList(i, i + 1) =>
               visits[i + 1].index =
                   IF visits[i].index = Len(visits[i].missions) - 1
                   THEN 0 ELSE visits[i].index + 1
    /\ \A i \in 1..Len(visits) :
           LET n == Len(visits[i].missions)
           IN  (n >= 1 /\ i + n - 1 <= Len(visits) /\ SameList(i, i + n - 1)) =>
                   {visits[k].index : k \in i..(i + n - 1)} = 0..(n - 1)

(* four calls in a row on a list of three missions: the fourth has         *)
(* returned the mission that the first returned                            *)
C24_Witness ==
    \E i \in 1..(Len(visits) - 3) :
        /\ Len(visits[i].missions) = 3
        /\ SameList(i, i + 3)
        /\ visits[i + 3].mission = visits[i].mission


(* C23: when generate_strategy_v2 raises during reflect_and_optimize, the  *)
(* exception is caught: the stored strategy and the session counters are   *)
(* left as they were and the manager keeps running; it then rests, and     *)
(* the next iteration of the loop of start, unless the manager was         *)
(* stopped, takes the next mission of the list and starts its research     *)
(* cycle.                                                                  *)
C23_StrategyFailureCaught ==
    [][/\ (strategy_call # "raised" /\ strategy_call' = "raised")
          => /\ strategy' = strategy
             /\ session_stats' = session_stats
             /\ agent_running' = agent_running
             /\ agent_pc' = "rest"
       /\ (strategy_call = "raised" /\ agent_pc = "rest" /\ agent_pc' # "rest")
          => agent_pc' = "loop" /\ strategy' = strategy /\ session_stats' = session_stats
       /\ (strategy_call = "raised" /\ agent_pc = "loop" /\ agent_running
              /\ <<agent_pc, visits>>' # <<agent_pc, visits>>)
          => /\ agent_pc' = "research"
             /\ Len(visits') = Len(visits) + 1
             /\ current_index' = (current_index + 1) % Len(missions')
             /\ mission' = missions'[current_index' + 1]
             /\ strategy' = strategy /\ session_stats' = session_stats]_vars

C23_Witness ==
    /\ strategy_call = "raised"
    /\ agent_pc = "research"
    /\ Len(visits) = 2
    /\ session_stats.scanned > 0
    /\ strategy = "s0"

(* C25: when check_and_sleep returns to the Scout, remaining is not below  *)
(* the safety buffer: a budget found below it on entry has been reset to   *)
(* the default, whatever the reset time, past ones included.               *)
C25_ResetOnReturn ==
    pc["scout"] = "handle" => monitor.remaining >= SafetyBuffer

Rank(event) ==
    CASE event = "claim" -> 1
      [] event = "checkpoint" -> 2
      [] event = "query" -> 3
      [] event = "update" -> 4
      [] event = "enqueue" -> 5
      [] event = "complete" -> 6

Count(event) == Cardinality({i \in 1..Len(events) : events[i] = event})

(* C26: what the Scout does for a task it claimed comes in this order:     *)
(* the claim, the checkpoint, one network query, the update of the monitor *)
(* from its headers, the follow-up tasks, complete_task; the query is      *)
(* never issued without a checkpoint since the claim, and a task that is   *)
(* completed has had exactly one query.                                    *)
C26_ScoutOrder ==
    /\ events # <<>> => events[1] = "claim"
    /\ \A i \in 1..(Len(events) - 1) :
           \/ Rank(events[i]) < Rank(events[i + 1])
           \/ events[i] = "enqueue" /\ events[i + 1] = "enqueue"
    /\ \A i \in 1..Len(events) :
           /\ events[i] = "query" => i > 1 /\ events[i - 1] = "checkpoint"
           /\ events[i] = "update" => i > 1 /\ events[i - 1] = "query"
           /\ events[i] = "complete" => Count("query") = 1 /\ Count("update") = 1
    /\ pc["scout"] = "handle" => events = <<"claim", "checkpoint">>
    /\ pc["scout"] = "complete" => Count("query") = 1 /\ Count("complete") = 0
    /\ \A t \in Ids :
           (tasks[t].type = "search" /\ tasks[t].status = "completed" /\ task["scout"] = t)
               => events[Len(events)] = "complete"

(* the Scout has slept at the checkpoint, searched, enqueued follow-ups    *)
(* and completed the task                                                  *)
C26_Witness ==
    /\ Len(events) >= 6
    /\ events[Len(events)] = "complete"
    /\ Count("enqueue") >= 1
    /\ wake_at > 0

Inside(c) == caller_pc[c] \in {"test", "sleeping"}

(* C27: at most one caller of check_and_sleep is inside the critical       *)
(* section, testing the budget or sleeping, and it is the holder of the    *)
(* lock; a caller that waits for the lock enters only when nobody is       *)
(* inside; the caller that slept leaves with remaining reset and the lock  *)
(* free; and a caller starts to sleep only if a response has left          *)
(* remaining below the buffer since the latest reset.                      *)
C27_CheckpointExclusive ==
    /\ [](/\ Cardinality({c \in Callers : Inside(c)}) <= 1
          /\ \A c \in Callers : Inside(c) <=> lock = c)
    /\ [][\A c \in Callers :
            /\ (caller_pc[c] = "acquire" /\ caller_pc'[c] = "test")
                   => \A d \in Callers : ~Inside(d)
            /\ (caller_pc[c] = "sleeping" /\ caller_pc'[c] # "sleeping")
                   => monitor'.remaining = DefaultRemaining /\ lock' = Free
            /\ (caller_pc[c] # "sleeping" /\ caller_pc'[c] = "sleeping")
                   => low_since_reset /\ monitor.remaining < SafetyBuffer]_vars

(* a caller has slept and reset remaining; a second one, which waited, now *)
(* tests the budget, and a third one still waits                           *)
C27_Witness ==
    /\ wake_at > 0
    /\ now >= wake_at
    /\ monitor.remaining = DefaultRemaining
    /\ ~low_since_reset
    /\ caller_pc["c1"] = "idle"
    /\ caller_pc["c2"] = "test"
    /\ caller_pc["c3"] = "acquire"

(* C28: a handler that raises leaves the worker with the task it claimed   *)
(* in this iteration, still 'processing'; the worker then calls fail_task  *)
(* on that task, which leaves it 'pending' with its retry count            *)
(* incremented or 'failed', and changes no other task; no fail_task call   *)
(* is made on any other task.                                              *)
C28_HandlerFailureFailsTask ==
    /\ [](\A w \in Workers :
            pc[w] \in {"except", "failing"}
                => /\ task[w] \in Ids
                   /\ tasks[task[w]].status = "processing"
                   /\ pc[w] = "failing" => op[w].kind = "fail" /\ op[w].sel = task[w])
    /\ [][/\ \A w \in Workers :
               /\ (pc[w] = "handle" /\ pc'[w] = "except") => tasks' = tasks
               /\ (pc[w] = "except" /\ pc'[w] # "except") => pc'[w] = "failing"
               /\ (pc[w] = "failing" /\ pc'[w] # "failing")
                    => /\ pc'[w] = "loop"
                       /\ tasks'[task[w]].status \in {"pending", "failed"}
                       /\ tasks'[task[w]].status = "pending"
                            => tasks'[task[w]].retry_count = tasks[task[w]].retry_count + 1
                       /\ tasks'[task[w]].status = "failed"
                            => tasks'[task[w]].retry_count = tasks[task[w]].retry_count
                       /\ fail_calls'[task[w]] = fail_calls[task[w]] + 1
                       /\ \A u \in Ids \ {task[w]} : tasks'[u] = tasks[u]
          /\ \A u \in Ids :
               fail_calls'[u] # fail_calls[u]
                   => \E w \in Workers : pc[w] = "failing" /\ task[w] = u]_vars

(* a task has been failed until its retries were exhausted, and another    *)
(* was completed                                                           *)
C28_Witness ==
    /\ \E t \in Ids : tasks[t].status = "failed" /\ fail_calls[t] = MaxRetries + 1
    /\ \E t \in Ids : tasks[t].status = "completed"

(* C29: no window is dropped: a discovery task that is 'completed' has     *)
(* enqueued two discovery children, or the search pages that cover the     *)
(* results its window holds; so a completed discovery task over a window   *)
(* that holds results has a follow-up task, also when its probe failed or  *)
(* was answered with an error.                                             *)
C29_NoWindowDropped ==
    \A t \in DiscoveryTasks :
        tasks[t].status = "completed" =>
            /\ \/ /\ Cardinality(Children(t)) = 2
                  /\ \A u \in Children(t) : tasks[u].type = "discovery"
               \/ /\ Cardinality(Children(t)) = Min(MaxPages, Ceil(held[t], PerPage))
                  /\ \A u \in Children(t) : tasks[u].type = "search"
            /\ held[t] > 0 => Children(t) # {}

RowsOf(url) == {i \in 1..Len(findings) : findings[i].url = url}

(* C30: whatever the interleaving of the Processors, the findings table    *)
(* holds at most one row per url, and exactly one for the url of an        *)
(* analyze task that is completed; an analyze task is never failed and its *)
(* retry count stays 0; a Processor goes from save_finding to              *)
(* complete_task also when save_finding returned -1; and, the Processors   *)
(* running, every analyze task is eventually 'completed'.                  *)
C30_DuplicateCompletes ==
    /\ [](\A url \in AnalyzedUrls : Cardinality(RowsOf(url)) <= 1)
    /\ [](\A t \in AnalyzeTasks :
             /\ tasks[t].retry_count = 0
             /\ tasks[t].status # "failed"
             /\ fail_calls[t] = 0
             /\ tasks[t].status = "completed"
                    => Cardinality(RowsOf(tasks[t].payload.item)) = 1)
    /\ [][\A w \in Processors :
             (pc[w] = "handle" /\ pc'[w] # "handle")
                 => /\ pc'[w] = "complete"
                    /\ Len(save_log') = Len(save_log) + 1
                    /\ tasks' = tasks]_vars
    /\ \A t \in 1..MaxAnalyzeTasks :
           (running /\ t \in Ids) ~> (t \in Ids /\ tasks[t].status = "completed")

(* two analyze tasks of the same repository, one taken by each Processor,  *)
(* are completed, the second save_finding having returned -1               *)
C30_Witness ==
    /\ \E a, b \in AnalyzeTasks :
           /\ a # b
           /\ tasks[a].payload.item = tasks[b].payload.item
           /\ tasks[a].status = "completed" /\ tasks[b].status = "completed"
           /\ task["proc1"] = a /\ task["proc2"] = b
    /\ \E i \in 1..Len(save_log) : save_log[i].ret = Duplicate
    /\ Len(findings) = 1

(***************************************************************************)
(* C31.  For every fetch_readme task the Fetcher handles: if the content   *)
(* _fetch_readme returns is not empty, the handler enqueues exactly one    *)
(* analyze task, at priority 10, carrying the item of the task and the     *)
(* content; if it is empty, the handler enqueues nothing.  In both cases   *)
(* the task is then marked completed, its retry count is as it was, and no *)
(* fetch_readme task is ever failed.                                       *)
(***************************************************************************)
FetcherHandles(t) ==
    pc["fetcher"] = "handle" /\ pc'["fetcher"] = "complete" /\ task["fetcher"] = t

FetcherCompletes(t) ==
    pc["fetcher"] = "complete" /\ pc'["fetcher"] = "loop" /\ task["fetcher"] = t

C31_FetcherHandOff ==
    /\ [](\A t \in FetchTasks : tasks[t].status # "failed" /\ tasks[t].retry_count = 0)
    /\ [][\A t \in FetchTasks :
            /\ FetcherHandles(t) =>
                 LET new == DOMAIN tasks' \ Ids
                     content == received'.text
                 IN  /\ received'.call = "fetch_readme"
                     /\ \A u \in Ids : tasks'[u] = tasks[u]
                     /\ IF content # ""
                        THEN /\ Cardinality(new) = 1
                             /\ \A u \in new :
                                  /\ tasks'[u].type = "analyze"
                                  /\ tasks'[u].priority = 10
                                  /\ tasks'[u].status = "pending"
                                  /\ tasks'[u].payload.item = tasks[t].payload.item
                                  /\ tasks'[u].payload.readme = content
                        ELSE new = {}
            /\ FetcherCompletes(t) =>
                 /\ tasks[t].status = "processing"
                 /\ tasks'[t] = [tasks[t] EXCEPT !.status = "completed"]
                 /\ DOMAIN tasks' = Ids]_vars

(* both cases have happened: a completed fetch_readme task with its analyze *)
(* task, and one completed with none                                       *)
C31_Witness ==
    \E t, u \in FetchTasks :
        /\ tasks[t].status = "completed"
        /\ tasks[u].status = "completed"
        /\ \E a \in AnalyzeTasks : parent[a] = t /\ tasks[a].payload.readme = "r2"
        /\ \A a \in AnalyzeTasks : parent[a] # u

(***************************************************************************)
(* C32.  A search task handled without error: one query call is made, for  *)
(* the query and the page of the task; the monitor is updated from the     *)
(* headers of its response; one fetch_readme task of priority 5 is         *)
(* enqueued per item of the response, in order, and none for an empty      *)
(* response; then the task is marked completed.                            *)
(***************************************************************************)
ScoutCompletes(t) ==
    pc["scout"] = "complete" /\ pc'["scout"] = "loop" /\ task["scout"] = t

C32_SearchFansOut ==
    /\ [](pc["scout"] = "complete" => Count("query") = 1 /\ Count("update") = 1)
    /\ [][\A t \in SearchTasks :
            /\ (SearchIssued("scout") /\ task["scout"] = t) =>
                 LET n == Len(received'.items)
                 IN  /\ received'.call = "search_raw"
                     /\ received'.query = tasks[t].payload.query
                     /\ received'.page = tasks[t].payload.page
                     /\ monitor' = update_from_headers(received'.headers)
                     /\ \A u \in Ids : tasks'[u] = tasks[u]
                     /\ DOMAIN tasks' = Ids \cup (NewId..(NewId + n - 1))
                     /\ \A i \in 1..n :
                          /\ tasks'[NewId + i - 1].type = "fetch_readme"
                          /\ tasks'[NewId + i - 1].priority = 5
                          /\ tasks'[NewId + i - 1].status = "pending"
                          /\ tasks'[NewId + i - 1].payload.item = received'.items[i]
            /\ ScoutCompletes(t) =>
                 /\ tasks[t].status = "processing"
                 /\ tasks'[t] = [tasks[t] EXCEPT !.status = "completed"]
                 /\ DOMAIN tasks' = Ids]_vars

(* a completed search task of page 2 with two fetch_readme tasks, and one  *)
(* completed with none                                                     *)
C32_Witness ==
    \E t, u \in SearchTasks :
        /\ tasks[t].status = "completed" /\ tasks[t].payload.page = 2
        /\ Cardinality({f \in FetchTasks : parent[f] = t}) = 2
        /\ tasks[u].status = "completed"
        /\ \A f \in FetchTasks : parent[f] # u

(***************************************************************************)
(* C33.  Follow-up tasks are produced at most once per parent task, also   *)
(* when the handler of the parent fails part-way and the parent is         *)
(* retried: no two tasks enqueued by the handler of the same parent have   *)
(* the same type and the same payload (result item, page or half-window).  *)
(***************************************************************************)
C33_FollowUpsOnce ==
    \A a, b \in Ids :
        (/\ a # b
         /\ parent[a] # 0
         /\ parent[a] = parent[b]
         /\ tasks[a].type = tasks[b].type)
        => tasks[a].payload # tasks[b].payload

(***************************************************************************)
(* C34.  Hand-off before completion.  A worker that stands between its     *)
(* handler and complete_task holds a task that is 'processing' and whose   *)
(* follow-up effects are committed: the fetch_readme tasks of the items of *)
(* a search, the analyze task of a fetch with content, the finding row of  *)
(* an analyze; a task becomes 'completed' only by the complete_task call   *)
(* of such a worker; every completed analyze task has a finding row with   *)
(* its URL.                                                                *)
(***************************************************************************)
HandedOff(w, t) ==
    /\ Role(w) = "processor" => HasUrl(tasks[t].payload.item)
    /\ (Role(w) = "fetcher" /\ received.call = "fetch_readme" /\ received.text # "") =>
          \E a \in AnalyzeTasks :
              parent[a] = t /\ tasks[a].payload.readme = received.text
    /\ (Role(w) = "scout" /\ received.call = "search_raw") =>
          \A i \in 1..Len(received.items) :
              \E f \in FetchTasks :
                  parent[f] = t /\ tasks[f].payload.item = received.items[i]

C34_HandOffBeforeCompletion ==
    /\ [](\A w \in Workers :
             pc[w] = "complete" =>
                 tasks[task[w]].status = "processing" /\ HandedOff(w, task[w]))
    /\ [](\A t \in AnalyzeTasks :
             tasks[t].status = "completed" => HasUrl(tasks[t].payload.item))
    /\ [][\A t \in Ids :
            (tasks[t].status # "completed" /\ tasks'[t].status = "completed")
            => \E w \in Workers : pc[w] = "complete" /\ task[w] = t /\ pc'[w] = "loop"]_vars

(***************************************************************************)
(* C35.  Pipeline progress.  With the workers running, scheduled fairly,   *)
(* and every external call returning or raising, every search,             *)
(* fetch_readme and analyze task that is enqueued eventually is completed  *)
(* or failed, and no task is handed to a handler more than 4 times.        *)
(***************************************************************************)
C35_PipelineProgress ==
    /\ \A t \in 1..MaxPipelineTasks :
           [](t \in Ids => <>(t \in Ids /\ tasks[t].status \in {"completed", "failed"}))
    /\ [](\A t \in DOMAIN handed : handed[t] <= MaxRetries + 1)

(***************************************************************************)
(* C36.  No claimed work is lost: every task that is 'processing'          *)
(* eventually is 'completed', 'failed' or 'pending' again, also when the   *)
(* worker that claimed it stops before complete_task or fail_task and the  *)
(* workers are started again on the same store.                            *)
(***************************************************************************)
C36_NoClaimedWorkLost ==
    \A t \in 1..MaxPipelineTasks :
        [](t \in Ids /\ tasks[t].status = "processing"
           => <>(t \in Ids /\ tasks[t].status \in {"completed", "failed", "pending"}))

(* what a step may do to retry_count, and what a new row looks like *)
RetryCountStep ==
    /\ \A t \in Ids \cap DOMAIN tasks' :
           tasks'[t].retry_count # tasks[t].retry_count
           => /\ tasks'[t].retry_count = tasks[t].retry_count + 1
              /\ \E c \in Conns : FailFinishes(c, t)
    /\ \A u \in DOMAIN tasks' \ Ids :
           tasks'[u].retry_count = 0 /\ tasks'[u].status = "pending"

(***************************************************************************)
(* C37.  Retry-count invariant: whatever the queue operations and their    *)
(* interleaving, every task has 0 <= retry_count <= 3, retry_count changes *)
(* only in fail_task and only by +1, every 'failed' task has retry_count   *)
(* 3, and enqueue_task creates tasks 'pending' with retry_count 0.         *)
(***************************************************************************)
C37_RetryCountInvariant ==
    /\ [](\A t \in Ids :
              /\ tasks[t].retry_count \in 0..MaxRetries
              /\ tasks[t].status = "failed" => tasks[t].retry_count = MaxRetries)
    /\ [][RetryCountStep]_vars

(* a step of reflect_and_optimize up to the decision about the strategy *)
ReflectStep == agent_pc = "reflect" /\ agent_pc' # "reflect"

Rotated == mission_tactic_history' # mission_tactic_history

ThresholdMoved(factor) ==
    LET current == get_threshold(mission, "similarity_threshold", TRUE)
        moved == FracMin(<<3, 5>>, FracMax(<<1, 10>>, FracMul(current, factor)))
    IN  cache' = [cache EXCEPT ![mission]["similarity_threshold"] = moved]

(***************************************************************************)
(* C38.  The reflection step after a research cycle of a mission with at   *)
(* least 3 logged cycles takes exactly the action selected by the average  *)
(* success rate r of the 3 most recent records: r < 0.10 rotates the       *)
(* tactic and leaves the threshold; 0.10 <= r < 0.20 lowers the threshold  *)
(* once; r > 0.60 raises it once; otherwise neither.  With fewer than 3    *)
(* records none of these actions occurs.                                   *)
(***************************************************************************)
C38_ReflectionAction ==
    [][ReflectStep =>
         LET recent_perf == get_recent_tactic_performance(mission, 10)
             r == AvgFirst(recent_perf, 3)
         IN  IF Len(recent_perf) < 3 THEN ~Rotated /\ cache' = cache
             ELSE IF FracLess(r, <<1, 10>>) THEN Rotated /\ cache' = cache
             ELSE IF FracLess(r, <<1, 5>>) THEN ~Rotated /\ ThresholdMoved(<<17, 20>>)
             ELSE IF FracLess(<<3, 5>>, r) THEN ~Rotated /\ ThresholdMoved(<<23, 20>>)
             ELSE ~Rotated /\ cache' = cache]_vars

(* the conditions under which the collaborator is to be called, with the   *)
(* cycle count of the reflection step that is being taken                  *)
StrategyDue ==
    LET recent_perf == get_recent_tactic_performance(mission, 10)
    IN  \/ cycle_count' % AiInterval = 0
        \/ Len(recent_perf) >= 5 /\ FracLess(AvgFirst(recent_perf, 5), <<1, 20>>)

StrategyInvoked == strategy_call' \in {"raised", "nothing", "returned"}

StrategyStep ==
    /\ ReflectStep => (agent_pc' = "optimize" <=> StrategyDue)
    /\ agent_pc = "optimize" /\ agent_pc' # "optimize" => StrategyInvoked
    /\ agent_pc # "optimize" /\ strategy_call' # strategy_call => ~StrategyInvoked
    /\ agent_pc = "optimize" /\ strategy_call' = "returned"
           => strategy' \in Strategies /\ session_stats' = [scanned |-> 0, interested |-> 0]

(***************************************************************************)
(* C39.  The strategy-generation collaborator is invoked in every          *)
(* reflection step whose cycle count is a multiple of 50 and in every      *)
(* reflection step of a mission with at least 5 records whose 5 most       *)
(* recent success rates average below 0.05, and in no other; when it       *)
(* returns a result the stored strategy is overwritten with it and the     *)
(* session counters scanned and interested are reset to 0.                 *)
(***************************************************************************)
C39_StrategyInvocation == [][StrategyStep]_vars

(* a research cycle that starts comes to its finally, the finally appends  *)
(* the one record of the cycle, and the loop goes on to the reflection     *)
CycleStep ==
    /\ agent_pc = "research" /\ agent_pc' # "research" => agent_pc' \in {"screen", "finally"}
    /\ agent_pc = "screen" /\ agent_pc' # "screen" => agent_pc' = "finally"
    /\ agent_pc = "finally" /\ agent_pc' # "finally"
           => /\ tactic_performance' =
                     Append(tactic_performance,
                            PerformanceRow(mission, cycle.tactic, cycle.found, cycle.accepted))
              /\ agent_pc' = "reflect"
              /\ agent_running' = agent_running
    /\ tactic_performance' # tactic_performance => agent_pc = "finally"

(***************************************************************************)
(* C40.  Every research cycle that starts appends exactly one              *)
(* tactic-performance record for its mission and selected tactic, with the *)
(* counts reached so far when the search or the screening raises, and an   *)
(* exception raised inside a research cycle does not end the mission loop. *)
(***************************************************************************)
C40_OneRecordPerCycle == [][CycleStep]_vars

=============================================================================
